---- MODULE Spec2Model ----
(***************************************************************************)
(* A model of the danger grid of AU_UAV_ROS (danger_grid.h, map.h,         *)
(* map_tools.h): the time-indexed risk field built for one aircraft from a *)
(* snapshot of all aircraft, and the distance-cost blend applied to it.    *)
(*                                                                         *)
(* Numbers.  The program computes in double; the model computes in fixed   *)
(* point, exactly as real arithmetic would up to the unit:                 *)
(*   - angles are integers in millidegrees (45 degrees = 45000),           *)
(*   - danger fractions, danger values and distances are integers in       *)
(*     thousandths (the danger ceiling 0.4 = 400, PLANE-style values such  *)
(*     as 35.355 = 35355).                                                 *)
(* EPSILON (1e-6) is below the unit, so "d > -EPSILON" is "d >= 0" and     *)
(* "d > EPSILON" is "d > 0" on these values.  The rounding noise of the    *)
(* doubles (an angle of 44.99999999999999 for an exact diagonal) is not    *)
(* modelled: it moves a danger of about 1e-16 between two in-grid cells.   *)
(***************************************************************************)
EXTENDS Integers, Sequences, FiniteSets, TLC

(***************************************************************************)
(* Bounds of the model (not program constants).                            *)
(***************************************************************************)
MaxField == 4        \* side, in metres, of the small airfield
MaxAdjust == 2       \* danger_adjust is drawn from 1..MaxAdjust
MaxCalls == 2        \* distance-cost calls made on one grid
MaxMetres == 6       \* width and height of a map, in metres, are drawn from 1..MaxMetres
MaxRes == 3          \* the resolution of a map is drawn from 1..MaxRes
MaxOps == 2          \* accessor calls made on one grid

(***************************************************************************)
(* Program constants.                                                      *)
(***************************************************************************)
look_ahead == 20
look_behind == 2
FieldWeightNum == 7          \* field_weight = 0.7 = FieldWeightNum / FieldWeightDen
FieldWeightDen == 10
dangerCeiling == 400         \* 0.4
BranchThreshold == 300       \* the .3 of "theFuture[1].danger>.3"
Unit == 1000                 \* one, in thousandths
ResDen == 2                  \* lengths in metres are kept in halves of a metre

(***************************************************************************)
(* "natural" is unsigned int: its arithmetic wraps.  The model wraps at    *)
(* 2^15 instead of 2^32, so that the square of a wrapped difference stays  *)
(* inside the model checker's integers; what the program relies on is kept:*)
(* a difference below zero becomes a value far above every coordinate, and*)
(* its square wraps back to the true square.                               *)
(***************************************************************************)
NaturalModulus == 32768

Abs(n) == IF n < 0 THEN -n ELSE n

\* k metres
Metres(k) == k * ResDen

\* a subtraction that stops at zero instead of wrapping
NaturalSaturating(n) == IF n < 0 THEN 0 ELSE n % NaturalModulus

Natural(n) == n % NaturalModulus

(***************************************************************************)
(* Integer square root by bisection: the largest r with r*r <= n.          *)
(* sqrt() of the program, truncated to the unit the caller scales n to.    *)
(***************************************************************************)
RECURSIVE ISqrtIn(_, _, _)
ISqrtIn(n, lo, hi) ==
    IF lo >= hi THEN lo
    ELSE LET mid == (lo + hi + 1) \div 2
         IN IF mid * mid <= n THEN ISqrtIn(n, mid, hi) ELSE ISqrtIn(n, lo, mid - 1)

ISqrt(n) == ISqrtIn(n, 0, 46340)

(***************************************************************************)
(* RADtoDEGREES * asin(xDistance / distance) in millidegrees, for          *)
(* xDistance, yDistance in 0..10: AsinMilliDeg[xDistance+1][yDistance+1].  *)
(***************************************************************************)
AsinMilliDeg ==
 << <<     0,     0,     0,     0,     0,     0,     0,     0,     0,     0,     0 >>,
    << 90000, 45000, 26565, 18435, 14036, 11310,  9462,  8130,  7125,  6340,  5711 >>,
    << 90000, 63435, 45000, 33690, 26565, 21801, 18435, 15945, 14036, 12529, 11310 >>,
    << 90000, 71565, 56310, 45000, 36870, 30964, 26565, 23199, 20556, 18435, 16699 >>,
    << 90000, 75964, 63435, 53130, 45000, 38660, 33690, 29745, 26565, 23962, 21801 >>,
    << 90000, 78690, 68199, 59036, 51340, 45000, 39806, 35538, 32005, 29055, 26565 >>,
    << 90000, 80538, 71565, 63435, 56310, 50194, 45000, 40601, 36870, 33690, 30964 >>,
    << 90000, 81870, 74055, 66801, 60255, 54462, 49399, 45000, 41186, 37875, 34992 >>,
    << 90000, 82875, 75964, 69444, 63435, 57995, 53130, 48814, 45000, 41634, 38660 >>,
    << 90000, 83660, 77471, 71565, 66038, 60945, 56310, 52125, 48366, 45000, 41987 >>,
    << 90000, 84289, 78690, 73301, 68199, 63435, 59036, 55008, 51340, 48013, 45000 >> >>

(***************************************************************************)
(* Estimates: (x, y, danger) triples; (0, 0, -1) marks the end of a second.*)
(***************************************************************************)
estimate(x, y, danger) == [x |-> x, y |-> y, danger |-> danger]

Sentinel == estimate(0, 0, -Unit)

(***************************************************************************)
(* "find the angle to the waypoint" of calculate_future_pos and            *)
(* dangerRecurse: 0 is north (decreasing y), positive is east.             *)
(***************************************************************************)
\* the north/south test the wrong way round
AngleToFlipped(x1, y1, x2, y2) ==
    LET xDistance == Abs(x2 - x1)
        yDistance == Abs(y2 - y1)
        a == AsinMilliDeg[xDistance + 1][yDistance + 1]
        angle == IF y2 > y1 THEN a ELSE 180000 - a
    IN IF (x2 - x1) < 0 THEN -angle ELSE angle

AngleTo(x1, y1, x2, y2) ==
    LET xDistance == Abs(x2 - x1)
        yDistance == Abs(y2 - y1)
        a == AsinMilliDeg[xDistance + 1][yDistance + 1]
        angle == IF y2 < y1 THEN a ELSE 180000 - a
    IN IF (x2 - x1) < 0 THEN -angle ELSE angle

(***************************************************************************)
(* neighoboringAngles: the two principal directions that bracket angle.    *)
(* first and second are out parameters: an angle outside [-180, 180]       *)
(* leaves them as they were.                                               *)
(***************************************************************************)
neighoboringAngles(angle, first, second) ==
    IF angle > 0
    THEN IF angle < 45000 THEN << 0, 45000 >>
         ELSE IF angle < 90000 THEN << 45000, 90000 >>
         ELSE IF angle < 135000 THEN << 90000, 135000 >>
         ELSE IF angle <= 180000 THEN << 135000, 180000 >>
         ELSE << first, second >>
    ELSE IF angle > -45000 THEN << 0, -45000 >>
         ELSE IF angle > -90000 THEN << -45000, -90000 >>
         ELSE IF angle > -135000 THEN << -90000, -135000 >>
         ELSE IF angle >= -180000 THEN << -135000, -180000 >>
         ELSE << first, second >>

(***************************************************************************)
(* "find closest straight line": <<closestAngle, otherAngle>>.             *)
(***************************************************************************)
ClosestAndOther(angle, neighbors) ==
    IF Abs(angle - neighbors[1]) >= Abs(angle - neighbors[2])
    THEN << neighbors[2], neighbors[1] >>
    ELSE << neighbors[1], neighbors[2] >>

(***************************************************************************)
(* "find displacement percentage": the fraction given to the closest       *)
(* direction.  angle, closestAngle and otherAngle have the same sign, so   *)
(* the quotients are taken on absolute values.                             *)
(***************************************************************************)
\* the first quotient upside down
DisplacementInverted(angle, closestAngle, otherAngle) ==
    IF Abs(angle) > Abs(closestAngle) /\ closestAngle # 0
    THEN (Abs(angle) * Unit) \div Abs(closestAngle)
    ELSE IF closestAngle # 0
    THEN (Abs(angle) * Unit) \div Abs(closestAngle)
    ELSE Unit - (Abs(angle) * Unit) \div Abs(otherAngle)

Displacement(angle, closestAngle, otherAngle) ==
    IF Abs(angle) > Abs(closestAngle) /\ closestAngle # 0
    THEN (Abs(closestAngle) * Unit) \div Abs(angle)
    ELSE IF closestAngle # 0
    THEN (Abs(angle) * Unit) \div Abs(closestAngle)
    ELSE Unit - (Abs(angle) * Unit) \div Abs(otherAngle)

(***************************************************************************)
(* placeDanger: the two estimates pushed for one step from (x, y).         *)
(***************************************************************************)
Ceiling(d) == IF d >= dangerCeiling THEN dangerCeiling ELSE d

placeDanger(angle, closest, other, x, y, danger0) ==
    LET danger == Ceiling(danger0)
        remainingDanger == Ceiling(Unit - danger0)
    IN IF angle > 0
       THEN IF closest = 0
            THEN << estimate(x, y - 1, danger), estimate(x + 1, y - 1, remainingDanger) >>
            ELSE IF closest = 45000 /\ other = 0
            THEN << estimate(x + 1, y - 1, danger), estimate(x, y - 1, remainingDanger) >>
            ELSE IF closest = 45000
            THEN << estimate(x + 1, y - 1, danger), estimate(x + 1, y, remainingDanger) >>
            ELSE IF closest = 90000 /\ other = 45000
            THEN << estimate(x + 1, y, danger), estimate(x + 1, y - 1, remainingDanger) >>
            ELSE IF closest = 90000
            THEN << estimate(x + 1, y, danger), estimate(x + 1, y + 1, remainingDanger) >>
            ELSE IF closest = 135000 /\ other = 90000
            THEN << estimate(x + 1, y + 1, danger), estimate(x + 1, y, remainingDanger) >>
            ELSE IF closest = 135000
            THEN << estimate(x + 1, y + 1, danger), estimate(x, y + 1, remainingDanger) >>
            ELSE << estimate(x, y + 1, danger), estimate(x + 1, y + 1, remainingDanger) >>
       ELSE IF closest = 0
            THEN << estimate(x, y - 1, danger), estimate(x - 1, y - 1, remainingDanger) >>
            ELSE IF closest = -45000 /\ other = 0
            THEN << estimate(x - 1, y - 1, danger), estimate(x, y - 1, remainingDanger) >>
            ELSE IF closest = -45000
            THEN << estimate(x - 1, y - 1, danger), estimate(x - 1, y, remainingDanger) >>
            ELSE IF closest = -90000 /\ other = -45000
            THEN << estimate(x - 1, y, danger), estimate(x - 1, y - 1, remainingDanger) >>
            ELSE IF closest = -90000
            THEN << estimate(x - 1, y, danger), estimate(x - 1, y + 1, remainingDanger) >>
            ELSE IF closest = -135000 /\ other = -90000
            THEN << estimate(x - 1, y + 1, danger), estimate(x - 1, y, remainingDanger) >>
            ELSE IF closest = -135000
            THEN << estimate(x - 1, y + 1, danger), estimate(x, y + 1, remainingDanger) >>
            ELSE << estimate(x, y + 1, danger), estimate(x - 1, y + 1, remainingDanger) >>

(***************************************************************************)
(* One projection step from (x1, y1) towards (x2, y2): the code shared by  *)
(* the head of calculate_future_pos and by dangerRecurse.  danger is the   *)
(* fraction before placeDanger applies the ceiling.                        *)
(***************************************************************************)
ProjectionStep(x1, y1, x2, y2) ==
    LET Place(angle, nb, co, danger) ==
            [angle |-> angle, neighbors |-> nb, closest |-> co[1], other |-> co[2],
             danger |-> danger, remaining |-> Unit - danger,
             pair |-> placeDanger(angle, co[1], co[2], x1, y1, danger)]
        Displace(angle, nb, co) == Place(angle, nb, co, Displacement(angle, co[1], co[2]))
        Closest(angle, nb) == Displace(angle, nb, ClosestAndOther(angle, nb))
        Neighbors(angle) == Closest(angle, neighoboringAngles(angle, 0, 0))
    IN Neighbors(AngleTo(x1, y1, x2, y2))

NoStep == [angle |-> 0, neighbors |-> << 0, 0 >>, closest |-> 0, other |-> 0,
           danger |-> 0, remaining |-> 0, pair |-> << >>]

(***************************************************************************)
(* One activation of dangerRecurse that does not return at once: push the  *)
(* pair and the sentinel, advance time, pick the estimate to recurse on.   *)
(* theFuture[nextPos+2] of the code (0-based) is the sentinel just pushed. *)
(***************************************************************************)
RecurseOnce(e, destination, theFuture, time) ==
    LET Branch(st, pushed, nextPos) ==
            [step |-> st, theFuture |-> pushed, time |-> time + 1,
             e |-> IF pushed[(nextPos + 2) + 1].danger > BranchThreshold
                   THEN pushed[(nextPos + 2) + 1]
                   ELSE pushed[nextPos + 1]]
        Push(st, placed) == Branch(st, Append(placed, Sentinel), Len(placed) - 2)
        Place(st) == Push(st, theFuture \o st.pair)
    IN Place(ProjectionStep(e.x, e.y, destination[1], destination[2]))

\* only the x distance tested
ArrivedInX(e, destination) == e.x = destination[1]

\* "if(xDistance==0&&yDistance==0)" of dangerRecurse
Arrived(e, destination) == e.x = destination[1] /\ e.y = destination[2]

RECURSIVE dangerRecurse(_, _, _, _)
dangerRecurse(e, destination, theFuture, time) ==
    IF Arrived(e, destination)
    THEN [theFuture |-> theFuture, time |-> time]
    ELSE LET Deeper(r) == dangerRecurse(r.e, destination, r.theFuture, r.time)
         IN Deeper(RecurseOnce(e, destination, theFuture, time))

(***************************************************************************)
(* calculate_future_pos, in three parts.                                   *)
(*   Endpoints: time = 0 selects location -> destination, any other time   *)
(*              destination -> final destination.                          *)
(*   FirstStep: the first step, which branches on theFuture[1].            *)
(*   GoalTail:  three more clusters ahead of the goal, along the plane's   *)
(*              bearing to its destination.                                *)
(***************************************************************************)
Endpoints(plane, time) ==
    IF time = 0
    THEN [current |-> plane.location, destination |-> plane.destination]
    ELSE [current |-> plane.destination, destination |-> plane.finalDestination]

FirstStep(current, destination, time) ==
    LET Branch(st, pushed) ==
            [step |-> st, theFuture |-> pushed, time |-> time + 1,
             e |-> IF pushed[1 + 1].danger > BranchThreshold
                   THEN pushed[1 + 1] ELSE pushed[0 + 1]]
        Push(st) == Branch(st, Append(st.pair, Sentinel))
    IN Push(ProjectionStep(current[1], current[2], destination[1], destination[2]))

GoalTail(plane, destination, neighbors, theFuture) ==
    LET angle == plane.bearingToDest
        nb == neighoboringAngles(angle, neighbors[1], neighbors[2])
        co == ClosestAndOther(angle, nb)
        f1 == theFuture \o placeDanger(angle, co[1], co[2], destination[1], destination[2], Unit)
        f2 == Append(f1, Sentinel)
        f3 == f2 \o placeDanger(angle, co[1], co[2],
                                f2[(Len(f2) - 3) + 1].x, f2[(Len(f2) - 3) + 1].y, Unit)
        f4 == Append(f3, Sentinel)
    IN f4 \o placeDanger(angle, co[1], co[2],
                         f4[(Len(f4) - 3) + 1].x, f4[(Len(f4) - 3) + 1].y, Unit)

\* the test for "already there" left out
AtDestinationNever(current, destination) == FALSE

\* "if(xDistance==0&&yDistance==0)" of calculate_future_pos
AtDestination(current, destination) == current = destination

calculate_future_pos(plane, time) ==
    LET ep == Endpoints(plane, time)
        ToGoal(h, r) ==
            [theFuture |-> GoalTail(plane, ep.destination, h.step.neighbors, r.theFuture),
             time |-> r.time]
        Recurse(h) == ToGoal(h, dangerRecurse(h.e, ep.destination, h.theFuture, h.time))
    IN IF AtDestination(ep.current, ep.destination)
       THEN [theFuture |-> << >>, time |-> time]
       ELSE Recurse(FirstStep(ep.current, ep.destination, time))

(***************************************************************************)
(* The map class: a grid of squares, each with a danger.                   *)
(***************************************************************************)
map(width_of_field, height_of_field, map_resolution) ==
    LET squares_wide == width_of_field \div map_resolution
        squares_high == height_of_field \div map_resolution
    IN [width |-> width_of_field, height |-> height_of_field,
        resolution |-> map_resolution,
        squares_wide |-> squares_wide, squares_high |-> squares_high,
        the_map |-> [x \in 0..(squares_wide - 1) |-> [y \in 0..(squares_high - 1) |-> 0]]]

map_get_danger_at(m, x_pos, y_pos) == m.the_map[x_pos][y_pos]

map_set_danger_at(m, x_pos, y_pos, new_danger) ==
    [m EXCEPT !.the_map[x_pos][y_pos] = new_danger]

\* an add that replaces what the square held
map_add_danger_at_overwriting(m, x_pos, y_pos, danger) ==
    [m EXCEPT !.the_map[x_pos][y_pos] = danger]

\* add_danger_at of the map accumulates.
map_add_danger_at(m, x_pos, y_pos, danger) ==
    [m EXCEPT !.the_map[x_pos][y_pos] = @ + danger]

\* safely_add_danger_at of the map: add_danger_at on the grid, nothing off it.
map_safely_add_danger_at(m, x_pos, y_pos, danger) ==
    IF x_pos < m.squares_wide /\ y_pos < m.squares_high
    THEN map_add_danger_at(m, x_pos, y_pos, danger)
    ELSE m

NoMap == [width |-> 0, height |-> 0, resolution |-> 0,
          squares_wide |-> 0, squares_high |-> 0, the_map |-> << >>]

find_width_in_squares(width_of_field, height_of_field, map_resolution) ==
    (width_of_field + map_resolution - 1) \div map_resolution

find_height_in_squares(width_of_field, height_of_field, map_resolution) ==
    (height_of_field + map_resolution - 1) \div map_resolution

(***************************************************************************)
(* The danger grid.  danger_space is a vector of maps, one per second from *)
(* look_behind seconds ago (index 0) to look_ahead seconds ahead.          *)
(***************************************************************************)
Slices == 0..(look_ahead + look_behind)

\* plane_danger = sqrt( sqrs_wide^2 + sqrs_high^2 ) * 2.5, in thousandths
PlaneDanger(sqrs_wide, sqrs_high) ==
    ISqrt((sqrs_wide * sqrs_wide + sqrs_high * sqrs_high) * 6250000)

\* a scale that decays with the index
set_danger_scale_decaying(pd) == [i \in 1..(look_behind + look_ahead + 2) |-> pd \div i]

set_danger_scale(pd) == [i \in 1..(look_behind + look_ahead + 2) |-> pd]

adjust_danger(ratings, seconds) == ratings[(seconds + look_behind) + 1]

\* the calls for the squares left of and above (x, y) only
FieldOffsetsNorthWest == << << -1, 1 >>, << -1, 0 >>, << -1, -1 >>, << 0, -1 >>, << 1, -1 >> >>

\* the eight calls of set_danger_field, in order, as offsets from (x, y)
FieldOffsets ==
    << << -1, 1 >>, << -1, 0 >>, << -1, -1 >>, << 0, -1 >>,
       << 1, -1 >>, << 1, 0 >>, << 1, 1 >>, << 0, 1 >> >>

RECURSIVE FieldCalls(_, _, _, _, _)
FieldCalls(m, x, y, d, i) ==
    IF i > Len(FieldOffsets) THEN m
    ELSE FieldCalls(map_safely_add_danger_at(m, Natural(x + FieldOffsets[i][1]),
                                             Natural(y + FieldOffsets[i][2]), d),
                    x, y, d, i + 1)

set_danger_field(space, unweighted_danger, x, y, time) ==
    LET d == (unweighted_danger * FieldWeightNum) \div FieldWeightDen
    IN [space EXCEPT ![time] = FieldCalls(@, x, y, d, 1)]

(***************************************************************************)
(* The body of the two "for each estimated (x, y, danger) triple" loops of *)
(* fill_danger_space, for one estimate.                                    *)
(***************************************************************************)
\* the test for the timestamp divider left out
IsLegalIgnoringDanger(space, est) ==
    /\ est.x >= 0 /\ est.x < space[0].squares_wide
    /\ est.y >= 0 /\ est.y < space[0].squares_high

IsLegal(space, est) ==
    /\ est.x >= 0 /\ est.x < space[0].squares_wide
    /\ est.y >= 0 /\ est.y < space[0].squares_high
    /\ est.danger >= 0

\* the same, with the second used as the index of the slice
ConsumeEstNoOffset(space, ratings, t, est) ==
    IF t <= look_ahead
    THEN IF IsLegal(space, est)
         THEN LET time == t
                  d == (est.danger * adjust_danger(ratings, t)) \div Unit
                  added == [space EXCEPT ![time] = map_add_danger_at(@, est.x, est.y, d)]
              IN [space |-> set_danger_field(added, d, est.x, est.y, time), t |-> t]
         ELSE [space |-> space, t |-> t + 1]
    ELSE [space |-> space, t |-> t]

ConsumeEst(space, ratings, t, est) ==
    IF t <= look_ahead
    THEN IF IsLegal(space, est)
         THEN LET time == t + look_behind
                  d == (est.danger * adjust_danger(ratings, t)) \div Unit
                  added == [space EXCEPT ![time] = map_add_danger_at(@, est.x, est.y, d)]
              IN [space |-> set_danger_field(added, d, est.x, est.y, time), t |-> t]
         ELSE [space |-> space, t |-> t + 1]
    ELSE [space |-> space, t |-> t]

RECURSIVE WalkEstimates(_, _, _, _, _)
WalkEstimates(space, ratings, t, ests, i) ==
    IF i > Len(ests) THEN space
    ELSE LET r == ConsumeEst(space, ratings, t, ests[i])
         IN WalkEstimates(r.space, ratings, r.t, ests, i + 1)

\* the owner is not recognised
IsOwnerNever(plane, owner) == FALSE

IsOwner(plane, owner) == plane.id = owner

\* the starting location marked without the look_behind offset
MarkStartNoOffset(space, plane, pd) ==
    [space EXCEPT ![0] =
        map_add_danger_at(@, plane.location[1], plane.location[2], pd)]

MarkStart(space, plane, pd) ==
    [space EXCEPT ![0 + look_behind] =
        map_add_danger_at(@, plane.location[1], plane.location[2], pd)]

\* the body of "for each plane" for a plane that is not the owner
FillPlane(space, ratings, pd, plane) ==
    LET marked == MarkStart(space, plane, pd)
        ToGoal(after_avoid, est_brk, second) ==
            WalkEstimates(after_avoid, ratings, est_brk + 1, second.theFuture, 1)
        ToAvoid(first) ==
            ToGoal(WalkEstimates(marked, ratings, 1, first.theFuture, 1), first.time,
                   calculate_future_pos(plane, first.time))
    IN ToAvoid(calculate_future_pos(plane, 0))

RECURSIVE FillFrom(_, _, _, _, _, _)
FillFrom(space, ratings, pd, planes, owner, i) ==
    IF i > Len(planes) THEN space
    ELSE IF IsOwner(planes[i], owner)
    THEN FillFrom(space, ratings, pd, planes, owner, i + 1)
    ELSE FillFrom(FillPlane(space, ratings, pd, planes[i]), ratings, pd, planes, owner, i + 1)

fill_danger_space(space, ratings, pd, planes, owner) ==
    FillFrom(space, ratings, pd, planes, owner, 1)

(***************************************************************************)
(* calculate_distance_costs( goal_x, goal_y, danger_adjust ): the distance *)
(* map, and the danger space rebuilt from it.  The blend loop runs over    *)
(* the indices crnt_t = 0 .. look_ahead - 1 of the old danger space.       *)
(***************************************************************************)
DistanceTo(crnt_x, crnt_y, goal_x, goal_y) ==
    LET dx == Natural(crnt_x - goal_x)
        dy == Natural(crnt_y - goal_y)
    IN ISqrt(Natural(Natural(dx * dx) + Natural(dy * dy)) * 1000000)

\* map::get_resolution( ) returns the double resolution as an unsigned int:
\* whole metres
get_resolution(m) == (m.resolution \div ResDen) * ResDen

\* danger_grid::get_res( )
get_res(space) == get_resolution(space[0])

\* the three assertions of the map constructor
MapAsserts(width_of_field, height_of_field, map_resolution) ==
    width_of_field > 0 /\ height_of_field > 0 /\ map_resolution > 0

\* the distance map made from the field's size in metres and the resolution
\* rounded up to whole metres
DistMapFromField(space, goal_x, goal_y) ==
    LET res == ((space[0].resolution + ResDen - 1) \div ResDen) * ResDen
        blank == map(space[0].width, space[0].height, res)
    IN [blank EXCEPT !.the_map =
           [x \in 0..(blank.squares_wide - 1) |->
              [y \in 0..(blank.squares_high - 1) |-> DistanceTo(x, y, goal_x, goal_y)]]]

DistMap(space, goal_x, goal_y) ==
    LET res == get_res(space)
        blank == map(space[0].squares_wide * res, space[0].squares_high * res, res)
    IN [blank EXCEPT !.the_map =
           [x \in 0..(blank.squares_wide - 1) |->
              [y \in 0..(blank.squares_high - 1) |-> DistanceTo(x, y, goal_x, goal_y)]]]

\* the blend loop left out
BlendedSpaceFresh(space, dm, danger_adjust) == [crnt_t \in Slices |-> dm]

BlendedSpace(space, dm, danger_adjust) ==
    [crnt_t \in Slices |->
       IF crnt_t < look_ahead
       THEN [dm EXCEPT !.the_map =
               [x \in 0..(dm.squares_wide - 1) |->
                  [y \in 0..(dm.squares_high - 1) |->
                     LET crnt_danger == map_get_danger_at(space[crnt_t], x, y)
                     IN IF crnt_danger > 0
                        THEN danger_adjust * crnt_danger + map_get_danger_at(dm, x, y)
                        ELSE map_get_danger_at(dm, x, y)]]]
       ELSE dm]

(***************************************************************************)
(* The state.                                                              *)
(*   aircraft, plane_id      the snapshot and the owner of the grid        *)
(*   DEBUG                   whether the build defines DEBUG (assertions)  *)
(*   danger_space, danger_ratings, map_res, dist_map,                      *)
(*   distance_costs_initialized                the fields of danger_grid   *)
(*   plane_danger            the file-scope "static double plane_danger"   *)
(*   pc, current_plane       where fill_danger_space is                    *)
(*   call_no, dummy, e, destination, neighbors, theFuture, step            *)
(*                           the running call of calculate_future_pos      *)
(*   est_to_avoid, est_to_goal, est_break, loop, current_est, t            *)
(*                           the locals of fill_danger_space               *)
(*   goal, adjust            the arguments of the last distance-cost call  *)
(*   calls                   how many distance-cost calls have been made   *)
(*   ops                     how many add / set calls have been made       *)
(*   copy_space              danger_space of the grid made by the copy     *)
(*                           constructor, << >> while there is none        *)
(*   ret                     what the last public call returned            *)
(*   grids                   the two grids under concurrent construction   *)
(*   set_up, map_args        a map and the arguments it was made from      *)
(***************************************************************************)
VARIABLES aircraft, plane_id, danger_space, danger_ratings, plane_danger, map_res,
          dist_map, distance_costs_initialized, pc, current_plane,
          call_no, dummy, e, destination, neighbors, theFuture, step,
          est_to_avoid, est_to_goal, est_break, loop, current_est, t,
          goal, adjust, DEBUG, calls, ops, copy_space, ret, grids, set_up, map_args

vars == << aircraft, plane_id, danger_space, danger_ratings, plane_danger, map_res,
           dist_map, distance_costs_initialized, pc, current_plane,
           call_no, dummy, e, destination, neighbors, theFuture, step,
           est_to_avoid, est_to_goal, est_break, loop, current_est, t,
           goal, adjust, DEBUG, calls, ops, copy_space, ret, grids, set_up, map_args >>

inputVars == << aircraft, plane_id, danger_ratings, plane_danger, map_res, DEBUG >>
calcVars == << call_no, dummy, e, destination, neighbors, theFuture, step >>
walkVars == << est_to_avoid, est_to_goal, est_break, loop, current_est, t >>
distVars == << dist_map, distance_costs_initialized, goal, adjust, calls >>
apiVars == << ops, copy_space, ret >>
pairVars == << grids >>
mapVars == << set_up, map_args >>

(***************************************************************************)
(* The snapshots the model builds grids from: an airfield of side n with   *)
(* resolution 1, the owner (id 1) followed by one other aircraft (id 2).   *)
(***************************************************************************)
Sizes == {MaxField, 10}

Points(n) == { << 0, 0 >>, << n - 1, n - 1 >>, << n \div 2, n \div 2 >>, << n \div 2, 1 >> }

Bearings == {0, 100000}

OwnerPlanes(n) ==
    { [id |-> 1, location |-> p, destination |-> << n - 1, n - 1 >>,
       finalDestination |-> << n - 1, n - 1 >>, bearingToDest |-> 0] :
      p \in { << 0, 0 >>, << n \div 2, n \div 2 >> } }

OtherPlanes(n) ==
    [id : {2}, location : Points(n), destination : Points(n),
     finalDestination : Points(n), bearingToDest : Bearings]

NoEstimate == estimate(0, 0, 0)

(***************************************************************************)
(* The constructor danger_grid( set_of_aircraft, width, height,            *)
(* resolution, plane_id ) up to its call of fill_danger_space, for a       *)
(* square airfield of side width, and the rest of the state before any     *)
(* public operation.  No assertion of the constructor fails on the inputs  *)
(* used.                                                                   *)
(***************************************************************************)
NoRet == [op |-> "none", outcome |-> "none", value |-> 0, args |-> << >>]

NoGrids == << >>

NoArgs == [width |-> 0, height |-> 0, resolution |-> 0]

danger_grid(set_of_aircraft, width, resolution, id, debug) ==
    /\ aircraft = set_of_aircraft
    /\ plane_id = id
    /\ DEBUG = debug
    /\ map_res = resolution
    /\ distance_costs_initialized = FALSE
    /\ dist_map = NoMap
    /\ plane_danger = PlaneDanger(find_width_in_squares(width, width, resolution),
                                  find_height_in_squares(width, width, resolution))
    /\ danger_space = [s \in Slices |-> map(width, width, resolution)]
    /\ danger_ratings = set_danger_scale(plane_danger)
    /\ pc = "plane"
    /\ current_plane = 1
    /\ call_no = 1 /\ dummy = 0 /\ e = NoEstimate /\ destination = << 0, 0 >>
    /\ neighbors = << 0, 0 >> /\ theFuture = << >> /\ step = NoStep
    /\ est_to_avoid = << >> /\ est_to_goal = << >> /\ est_break = 0
    /\ loop = 1 /\ current_est = 1 /\ t = 1
    /\ goal = << 0, 0 >> /\ adjust = 0
    /\ calls = 0 /\ ops = 0 /\ copy_space = << >> /\ ret = NoRet
    /\ grids = NoGrids
    /\ set_up = NoMap /\ map_args = NoArgs

\* Nothing between the constructor and the first distance-cost call depends
\* on DEBUG for these inputs, so Spec explores the build without it.
Init ==
    \E n \in Sizes :
      \E owner \in OwnerPlanes(n), other \in OtherPlanes(n) :
        danger_grid(<< owner, other >>, Metres(n), Metres(1), owner.id, FALSE)

(***************************************************************************)
(* fill_danger_space: the loop over the planes.                            *)
(***************************************************************************)
FillDone ==
    /\ pc = "plane"
    /\ current_plane > Len(aircraft)
    /\ pc' = "ready"
    /\ UNCHANGED << inputVars, apiVars, pairVars, mapVars, danger_space, current_plane, calcVars, walkVars, distVars >>

SkipOwner ==
    /\ pc = "plane"
    /\ current_plane <= Len(aircraft)
    /\ IsOwner(aircraft[current_plane], plane_id)
    /\ current_plane' = current_plane + 1
    /\ UNCHANGED << inputVars, apiVars, pairVars, mapVars, danger_space, pc, calcVars, walkVars, distVars >>

\* "Set the danger at the plane's starting location", then the first call
\* of calculate_future_pos is entered with dummy = 0.
MarkPlane ==
    /\ pc = "plane"
    /\ current_plane <= Len(aircraft)
    /\ ~IsOwner(aircraft[current_plane], plane_id)
    /\ danger_space' = MarkStart(danger_space, aircraft[current_plane], plane_danger)
    /\ dummy' = 0
    /\ call_no' = 1
    /\ pc' = "calc"
    /\ UNCHANGED << inputVars, apiVars, pairVars, mapVars, current_plane, e, destination, neighbors, theFuture, step,
                    walkVars, distVars >>

(***************************************************************************)
(* What fill_danger_space does with the result of a call of                *)
(* calculate_future_pos: after the first call it remembers the time as     *)
(* est_break and makes the second call; after the second it starts the     *)
(* first estimate loop with t = 1.                                         *)
(***************************************************************************)
Return(result, time) ==
    /\ dummy' = time
    /\ theFuture' = result
    /\ IF call_no = 1
       THEN /\ est_to_avoid' = result
            /\ est_break' = time
            /\ call_no' = 2
            /\ pc' = "calc"
            /\ UNCHANGED << est_to_goal, loop, current_est, t >>
       ELSE /\ est_to_goal' = result
            /\ pc' = "walk"
            /\ loop' = 1
            /\ current_est' = 1
            /\ t' = 1
            /\ UNCHANGED << est_to_avoid, est_break, call_no >>

\* calculate_future_pos when the plane is already at the destination
CalcEmpty ==
    /\ pc = "calc"
    /\ LET ep == Endpoints(aircraft[current_plane], dummy)
       IN /\ AtDestination(ep.current, ep.destination)
          /\ Return(<< >>, dummy)
    /\ UNCHANGED << inputVars, apiVars, pairVars, mapVars, danger_space, current_plane, e, destination, neighbors,
                    step, distVars >>

\* calculate_future_pos up to its call of dangerRecurse
CalcFirstStep ==
    /\ pc = "calc"
    /\ \E ep \in { Endpoints(aircraft[current_plane], dummy) } :
          /\ ~AtDestination(ep.current, ep.destination)
          /\ \E h \in { FirstStep(ep.current, ep.destination, dummy) } :
                /\ destination' = ep.destination
                /\ neighbors' = h.step.neighbors
                /\ step' = h.step
                /\ theFuture' = h.theFuture
                /\ dummy' = h.time
                /\ e' = h.e
    /\ pc' = "recurse"
    /\ UNCHANGED << inputVars, apiVars, pairVars, mapVars, danger_space, current_plane, call_no, walkVars, distVars >>

\* one activation of dangerRecurse that recurses
RecurseStep ==
    /\ pc = "recurse"
    /\ ~Arrived(e, destination)
    /\ \E r \in { RecurseOnce(e, destination, theFuture, dummy) } :
          /\ step' = r.step
          /\ theFuture' = r.theFuture
          /\ dummy' = r.time
          /\ e' = r.e
    /\ UNCHANGED << inputVars, apiVars, pairVars, mapVars, danger_space, current_plane, pc, call_no, destination,
                    neighbors, walkVars, distVars >>

\* dangerRecurse returns; calculate_future_pos adds the tail and returns
CalcTail ==
    /\ pc = "recurse"
    /\ Arrived(e, destination)
    /\ Return(GoalTail(aircraft[current_plane], destination, neighbors, theFuture), dummy)
    /\ UNCHANGED << inputVars, apiVars, pairVars, mapVars, danger_space, current_plane, e, destination, neighbors,
                    step, distVars >>

(***************************************************************************)
(* fill_danger_space: the two estimate loops.                              *)
(***************************************************************************)
Stream == IF loop = 1 THEN est_to_avoid ELSE est_to_goal

Consume ==
    /\ pc = "walk"
    /\ current_est <= Len(Stream)
    /\ LET r == ConsumeEst(danger_space, danger_ratings, t, Stream[current_est])
       IN /\ danger_space' = r.space
          /\ t' = r.t
    /\ current_est' = current_est + 1
    /\ UNCHANGED << inputVars, apiVars, pairVars, mapVars, pc, current_plane, calcVars, est_to_avoid, est_to_goal,
                    est_break, loop, distVars >>

\* the first loop is over: "t = est_break + 1"
NextLoop ==
    /\ pc = "walk"
    /\ loop = 1
    /\ current_est > Len(Stream)
    /\ loop' = 2
    /\ current_est' = 1
    /\ t' = est_break + 1
    /\ UNCHANGED << inputVars, apiVars, pairVars, mapVars, danger_space, pc, current_plane, calcVars, est_to_avoid,
                    est_to_goal, est_break, distVars >>

\* the second loop is over: on to the next plane
NextPlane ==
    /\ pc = "walk"
    /\ loop = 2
    /\ current_est > Len(Stream)
    /\ current_plane' = current_plane + 1
    /\ pc' = "plane"
    /\ UNCHANGED << inputVars, apiVars, pairVars, mapVars, danger_space, calcVars, walkVars, distVars >>

(***************************************************************************)
(* The public operations on a constructed grid.                            *)
(***************************************************************************)
calculate_distance_costs(goal_x, goal_y, danger_adjust) ==
    /\ pc = "ready"
    /\ LET res == get_res(danger_space)
       IN IF MapAsserts(danger_space[0].squares_wide * res,
                        danger_space[0].squares_high * res, res)
          THEN /\ dist_map' = DistMap(danger_space, goal_x, goal_y)
               /\ distance_costs_initialized' = TRUE
               /\ danger_space' = BlendedSpace(danger_space, dist_map', danger_adjust)
               /\ goal' = << goal_x, goal_y >>
               /\ adjust' = danger_adjust
               /\ calls' = calls + 1
               /\ ret' = [op |-> "calculate_distance_costs", outcome |-> "done",
                          value |-> 0, args |-> << goal_x, goal_y >>]
               /\ pc' = pc
          ELSE \* "new map( 0, 0, 0 )": the first assertion of the map fails
               /\ ret' = [op |-> "calculate_distance_costs", outcome |-> "assert",
                          value |-> 0, args |-> << goal_x, goal_y >>]
               /\ pc' = "aborted"
               /\ UNCHANGED << danger_space, distVars >>
    /\ UNCHANGED << inputVars, pairVars, mapVars, current_plane, calcVars, walkVars,
                    ops, copy_space >>

Goals == { << 0, 0 >>, << 1, 2 >> }

\* the first distance-cost call on a constructed grid
CalculateDistanceCosts ==
    /\ ~distance_costs_initialized
    /\ \E g \in Goals, a \in 1..MaxAdjust : calculate_distance_costs(g[1], g[2], a)

\* a later distance-cost call: nothing in the code forbids it
CalculateDistanceCostsAgain ==
    /\ distance_costs_initialized
    /\ calls < MaxCalls
    /\ \E g \in Goals, a \in 1..MaxAdjust : calculate_distance_costs(g[1], g[2], a)

\* every slice copied from the first one
get_danger_space_first(space) == [s \in DOMAIN space |-> space[0]]

\* get_danger_space( ): the vector of maps, returned by value
get_danger_space(space) == space

\* danger_grid( const danger_grid * dg ): the new grid gets a copy of the
\* source's danger_space and nothing else.
CopyConstruct ==
    /\ pc = "ready"
    /\ copy_space' = get_danger_space(danger_space)
    /\ ret' = [op |-> "copy", outcome |-> "done", value |-> 0, args |-> << >>]
    /\ UNCHANGED << inputVars, pairVars, mapVars, danger_space, pc, current_plane, calcVars,
                    walkVars, distVars, ops >>

\* what falling off the end of get_dist_cost_at may hand back
Garbage == {0, 777}

\* the flag not looked at
get_dist_cost_at_unchecked(x_pos, y_pos) ==
    { [outcome |-> "value",
       value |-> IF distance_costs_initialized
                 THEN map_get_danger_at(dist_map, x_pos, y_pos) ELSE 0] }

\* get_dist_cost_at( x_pos, y_pos ): the possible results.  With the flag
\* set, the entry of dist_map; without it, assert( false ) when DEBUG is
\* defined, and otherwise control reaches the end of a function that
\* returns a double.
get_dist_cost_at(x_pos, y_pos) ==
    IF distance_costs_initialized
    THEN { [outcome |-> "value", value |-> map_get_danger_at(dist_map, x_pos, y_pos)] }
    ELSE IF DEBUG
    THEN { [outcome |-> "assert", value |-> 0] }
    ELSE { [outcome |-> "undefined", value |-> v] : v \in Garbage }

QueryCells == { << 0, 0 >>, << 1, 2 >> }

\* a failed assertion ends the program
AfterOutcome(outcome) == IF outcome = "assert" THEN "aborted" ELSE pc

GetDistCostAt ==
    /\ pc = "ready"
    /\ \E c \in QueryCells : \E r \in get_dist_cost_at(c[1], c[2]) :
          /\ ret' = [op |-> "get_dist_cost_at", outcome |-> r.outcome,
                     value |-> r.value, args |-> c]
          /\ pc' = AfterOutcome(r.outcome)
    /\ UNCHANGED << inputVars, pairVars, mapVars, danger_space, current_plane, calcVars,
                    walkVars, distVars, ops, copy_space >>

Next ==
    \/ FillDone
    \/ SkipOwner
    \/ MarkPlane
    \/ CalcEmpty
    \/ CalcFirstStep
    \/ RecurseStep
    \/ CalcTail
    \/ Consume
    \/ NextLoop
    \/ NextPlane
    \/ CalculateDistanceCosts

Spec == Init /\ [][Next]_vars

(***************************************************************************)
(* The public operations on one grid: the construction of a small grid     *)
(* under either build, then distance-cost calls, copies and distance-cost  *)
(* queries in any order.                                                   *)
(***************************************************************************)
ApiPlanes(n) ==
    { p \in OtherPlanes(n) : /\ p.location = << n - 1, n - 1 >>
                             /\ p.destination \in { << n - 1, n - 1 >>, << 0, 0 >> }
                             /\ p.finalDestination = << 0, 0 >>
                             /\ p.bearingToDest = 0 }

\* resolutions of 0.5 m, 1 m and 1.5 m
ApiResolutions == {1, 2, 3}

\* the field is MaxField squares of the chosen resolution wide
InitApi ==
    \E owner \in OwnerPlanes(MaxField), other \in ApiPlanes(MaxField), debug \in BOOLEAN :
      \E res \in ApiResolutions :
        /\ owner.location = << 0, 0 >>
        /\ danger_grid(<< owner, other >>, MaxField * res, res, owner.id, debug)

NextApi ==
    \/ FillDone
    \/ SkipOwner
    \/ MarkPlane
    \/ CalcEmpty
    \/ CalcFirstStep
    \/ RecurseStep
    \/ CalcTail
    \/ Consume
    \/ NextLoop
    \/ NextPlane
    \/ CalculateDistanceCosts
    \/ CalculateDistanceCostsAgain
    \/ CopyConstruct
    \/ GetDistCostAt

SpecApi == InitApi /\ [][NextApi]_vars

(***************************************************************************)
(* A snapshot of three aircraft: the owner and two others, which may be in *)
(* the same square.                                                        *)
(***************************************************************************)
CrowdPlanes(n, id) ==
    { [id |-> id, location |-> l, destination |-> d, finalDestination |-> d,
       bearingToDest |-> 0] :
      l \in { << n - 1, n - 1 >>, << n \div 2, n \div 2 >> },
      d \in { << 0, 0 >>, << n - 1, n - 1 >> } }

InitCrowd ==
    \E owner \in OwnerPlanes(MaxField) :
      \E second \in CrowdPlanes(MaxField, 2), third \in CrowdPlanes(MaxField, 3) :
        danger_grid(<< owner, second, third >>, Metres(MaxField), Metres(1), owner.id, FALSE)

SpecCrowd == InitCrowd /\ [][Next]_vars

(***************************************************************************)
(* Two grids under construction at once, from one snapshot that nobody     *)
(* writes.  Each constructor is a thread; its steps are cut at its         *)
(* accesses to the one variable the two share, the file-scope              *)
(* "static double plane_danger":                                           *)
(*   "start"  the constructor computes the size in squares, assigns        *)
(*            plane_danger and builds the blank danger_space;              *)
(*   "scale"  set_danger_scale pushes plane_danger into danger_ratings;    *)
(*   "fill"   fill_danger_space, one plane per step: the mark of the       *)
(*            starting square reads plane_danger, the rest works on the    *)
(*            grid's own danger_ratings and danger_space.                  *)
(* Each step is taken as a whole; cutting a step further adds              *)
(* interleavings and removes none.  grids[g] holds the fields of grid g    *)
(* and where its constructor is.                                           *)
(***************************************************************************)
PairSizes == {MaxField, MaxField + 1}

PairSnapshot ==
    << [id |-> 1, location |-> << 0, 0 >>, destination |-> << MaxField - 1, MaxField - 1 >>,
        finalDestination |-> << MaxField - 1, MaxField - 1 >>, bearingToDest |-> 0],
       [id |-> 2, location |-> << MaxField - 1, MaxField - 1 >>, destination |-> << 0, 0 >>,
        finalDestination |-> << 0, 0 >>, bearingToDest |-> 0] >>

NewGrid(n, id) ==
    [width |-> n, plane_id |-> id, at |-> "start", danger_ratings |-> << >>,
     danger_space |-> << >>, current_plane |-> 1]

singleVars == << plane_id, danger_space, danger_ratings, map_res, DEBUG, pc, current_plane,
                 calcVars, walkVars, distVars, apiVars, mapVars >>

InitPair ==
    /\ aircraft = PairSnapshot
    /\ plane_danger = 0
    /\ \E n1 \in PairSizes, n2 \in PairSizes, id2 \in {1, 2} :
          grids = << NewGrid(n1, 1), NewGrid(n2, id2) >>
    /\ plane_id = 0 /\ DEBUG = FALSE /\ map_res = 1
    /\ distance_costs_initialized = FALSE /\ dist_map = NoMap
    /\ danger_space = << >> /\ danger_ratings = << >>
    /\ pc = "pair" /\ current_plane = 1
    /\ call_no = 1 /\ dummy = 0 /\ e = NoEstimate /\ destination = << 0, 0 >>
    /\ neighbors = << 0, 0 >> /\ theFuture = << >> /\ step = NoStep
    /\ est_to_avoid = << >> /\ est_to_goal = << >> /\ est_break = 0
    /\ loop = 1 /\ current_est = 1 /\ t = 1
    /\ goal = << 0, 0 >> /\ adjust = 0
    /\ calls = 0 /\ ops = 0 /\ copy_space = << >> /\ ret = NoRet
    /\ set_up = NoMap /\ map_args = NoArgs

\* the constructor up to "map set_up( width, height, resolution )"
PairStart(g) ==
    /\ grids[g].at = "start"
    /\ LET n == grids[g].width
       IN /\ plane_danger' = PlaneDanger(find_width_in_squares(Metres(n), Metres(n), Metres(1)),
                                         find_height_in_squares(Metres(n), Metres(n), Metres(1)))
          /\ grids' = [grids EXCEPT ![g].at = "scale",
                                    ![g].danger_space =
                                        [s \in Slices |-> map(Metres(n), Metres(n), Metres(1))]]
    /\ UNCHANGED << aircraft, singleVars >>

\* set_danger_scale( ), which reads plane_danger for every entry it pushes
PairScale(g) ==
    /\ grids[g].at = "scale"
    /\ grids' = [grids EXCEPT ![g].danger_ratings = set_danger_scale(plane_danger),
                              ![g].at = "fill"]
    /\ UNCHANGED << aircraft, plane_danger, singleVars >>

\* the body of "for each plane" of fill_danger_space, for one plane
PairFill(g) ==
    /\ grids[g].at = "fill"
    /\ grids[g].current_plane <= Len(aircraft)
    /\ LET plane == aircraft[grids[g].current_plane]
       IN grids' = [grids EXCEPT
                      ![g].current_plane = @ + 1,
                      ![g].danger_space =
                          IF IsOwner(plane, grids[g].plane_id) THEN @
                          ELSE FillPlane(@, grids[g].danger_ratings, plane_danger, plane)]
    /\ UNCHANGED << aircraft, plane_danger, singleVars >>

\* the constructor returns
PairDone(g) ==
    /\ grids[g].at = "fill"
    /\ grids[g].current_plane > Len(aircraft)
    /\ grids' = [grids EXCEPT ![g].at = "done"]
    /\ UNCHANGED << aircraft, plane_danger, singleVars >>

NextPair ==
    \/ \E g \in {1, 2} : PairStart(g)
    \/ \E g \in {1, 2} : PairScale(g)
    \/ \E g \in {1, 2} : PairFill(g)
    \/ \E g \in {1, 2} : PairDone(g)

SpecPair == InitPair /\ [][NextPair]_vars

(***************************************************************************)
(* The map constructor on its own: map( width_of_field, height_of_field,   *)
(* map_resolution ) for positive arguments, which is what its three        *)
(* assertions ask for.  Its last statement prints the_map[1].size(), an    *)
(* element the vector does not have when the map is less than two squares  *)
(* wide.                                                                   *)
(***************************************************************************)
InitMap ==
    /\ \E w \in 1..MaxMetres, h \in 1..MaxMetres, res \in 1..MaxRes :
          map_args = [width |-> w, height |-> h, resolution |-> res]
    /\ set_up = NoMap
    /\ aircraft = << >> /\ plane_danger = 0 /\ grids = NoGrids
    /\ plane_id = 0 /\ DEBUG = FALSE /\ map_res = 1
    /\ distance_costs_initialized = FALSE /\ dist_map = NoMap
    /\ danger_space = << >> /\ danger_ratings = << >>
    /\ pc = "map" /\ current_plane = 1
    /\ call_no = 1 /\ dummy = 0 /\ e = NoEstimate /\ destination = << 0, 0 >>
    /\ neighbors = << 0, 0 >> /\ theFuture = << >> /\ step = NoStep
    /\ est_to_avoid = << >> /\ est_to_goal = << >> /\ est_break = 0
    /\ loop = 1 /\ current_est = 1 /\ t = 1
    /\ goal = << 0, 0 >> /\ adjust = 0
    /\ calls = 0 /\ ops = 0 /\ copy_space = << >> /\ ret = NoRet

MapOutcomes(m) == IF m.squares_wide < 2 THEN {"done", "undefined"} ELSE {"done"}

MapConstruct ==
    /\ pc = "map"
    /\ set_up = NoMap
    /\ set_up' = map(map_args.width, map_args.height, map_args.resolution)
    /\ \E o \in MapOutcomes(set_up') :
          ret' = [op |-> "map", outcome |-> o, value |-> 0, args |-> << >>]
    /\ UNCHANGED << inputVars, pairVars, map_args, danger_space, pc, current_plane,
                    calcVars, walkVars, distVars, ops, copy_space >>

NextMap == MapConstruct

SpecMap == InitMap /\ [][NextMap]_vars

(***************************************************************************)
(* Projections between every two squares of a small airfield: one other    *)
(* aircraft, at any square, bound for any square.                          *)
(***************************************************************************)
ProjectSide == MaxField + 1

GridPoints(n) == (0..(n - 1)) \X (0..(n - 1))

ProjectPlanes(n) ==
    { [id |-> 2, location |-> l, destination |-> d, finalDestination |-> d,
       bearingToDest |-> 0] : l \in GridPoints(n), d \in GridPoints(n) }

InitProject ==
    \E owner \in OwnerPlanes(ProjectSide), other \in ProjectPlanes(ProjectSide) :
        /\ owner.location = << 0, 0 >>
        /\ danger_grid(<< owner, other >>, Metres(ProjectSide), Metres(1), owner.id, FALSE)

SpecProject == InitProject /\ [][Next]_vars

\* calculate_future_pos and dangerRecurse are straight-line code of one
\* thread: a step of theirs that can be taken is taken
FairProject ==
    SpecProject /\ WF_vars(CalcFirstStep) /\ WF_vars(RecurseStep) /\ WF_vars(CalcTail)

(***************************************************************************)
(* The accessors of a constructed grid: get_danger_at, operator( ),        *)
(* add_danger_at and set_danger_at, called with seconds inside and just    *)
(* outside [-look_behind, look_ahead] and with dangers on both sides of    *)
(* zero, under either build.  danger is in thousandths.                    *)
(***************************************************************************)
\* danger_space->size( )
size(space) == Cardinality(DOMAIN space)

\* the two assertions on seconds that the accessors make when DEBUG is
\* defined; "x_pos < UINT_MAX && y_pos < UINT_MAX" holds of every square
SecondsAsserts(space, seconds) ==
    /\ seconds < size(space) - look_behind
    /\ seconds >= -look_behind

\* "assert( danger > -1.0 )" of add_danger_at and set_danger_at
DangerAsserts(danger) == danger > -Unit

\* the index seconds + look_behind is one of the vector
SliceExists(space, seconds) == (seconds + look_behind) \in DOMAIN space

\* the return statement of danger_grid::get_danger_at( x_pos, y_pos, seconds )
get_danger_at(x_pos, y_pos, seconds) ==
    map_get_danger_at(danger_space[seconds + look_behind], x_pos, y_pos)

\* danger_grid::get_danger_at as a call: the possible results.  An index
\* outside the vector, which only a build without DEBUG reaches, reads
\* memory that is not the grid's.
call_get_danger_at(x_pos, y_pos, seconds) ==
    IF DEBUG /\ ~SecondsAsserts(danger_space, seconds)
    THEN { [outcome |-> "assert", value |-> 0] }
    ELSE IF SliceExists(danger_space, seconds)
    THEN { [outcome |-> "value", value |-> get_danger_at(x_pos, y_pos, seconds)] }
    ELSE { [outcome |-> "undefined", value |-> v] : v \in Garbage }

\* danger_grid::operator( )( x, y, time )
call_operator(x, y, time) == call_get_danger_at(x, y, time)

\* A write through an index outside the vector: it may land outside the
\* grid, end the program, or land on a square of the grid's first or last
\* slice.
StrayWrite(space, x_pos, y_pos, danger) ==
    { [outcome |-> "undefined", space |-> space], [outcome |-> "crash", space |-> space] }
    \cup { [outcome |-> "undefined",
            space |-> [space EXCEPT ![s] = map_set_danger_at(@, x_pos, y_pos, danger)]] :
              s \in {0, size(space) - 1} }

\* the slice chosen without the look_behind offset
add_danger_at_unshifted(x_pos, y_pos, seconds, danger) ==
    { [outcome |-> "done",
       space |-> [danger_space EXCEPT
                    ![IF seconds \in DOMAIN danger_space THEN seconds ELSE 0] =
                        map_add_danger_at(@, x_pos, y_pos, danger)]] }

\* danger_grid::add_danger_at( x_pos, y_pos, seconds, danger )
add_danger_at(x_pos, y_pos, seconds, danger) ==
    IF DEBUG /\ ~(SecondsAsserts(danger_space, seconds) /\ DangerAsserts(danger))
    THEN { [outcome |-> "assert", space |-> danger_space] }
    ELSE IF SliceExists(danger_space, seconds)
    THEN { [outcome |-> "done",
            space |-> [danger_space EXCEPT ![seconds + look_behind] =
                           map_add_danger_at(@, x_pos, y_pos, danger)]] }
    ELSE StrayWrite(danger_space, x_pos, y_pos, danger)

\* danger_grid::set_danger_at( x_pos, y_pos, seconds, danger )
set_danger_at(x_pos, y_pos, seconds, danger) ==
    IF DEBUG /\ ~(SecondsAsserts(danger_space, seconds) /\ DangerAsserts(danger))
    THEN { [outcome |-> "assert", space |-> danger_space] }
    ELSE IF SliceExists(danger_space, seconds)
    THEN { [outcome |-> "done",
            space |-> [danger_space EXCEPT ![seconds + look_behind] =
                           map_set_danger_at(@, x_pos, y_pos, danger)]] }
    ELSE StrayWrite(danger_space, x_pos, y_pos, danger)

AccessSeconds == { -look_behind - 1, -look_behind, 0, look_ahead, look_ahead + 1 }

\* -1.0, -0.5 and 0.5
AccessDangers == { -Unit, -(Unit \div 2), Unit \div 2 }

\* a failed assertion and a crash end the program
AfterAccess(outcome) == IF outcome \in {"assert", "crash"} THEN "aborted" ELSE pc

GetDangerAt ==
    /\ pc = "ready"
    /\ ops < MaxOps
    /\ \E c \in QueryCells, seconds \in AccessSeconds :
          \E r \in call_get_danger_at(c[1], c[2], seconds) :
             /\ ret' = [op |-> "get_danger_at", outcome |-> r.outcome, value |-> r.value,
                        args |-> << c[1], c[2], seconds, 0 >>]
             /\ pc' = AfterAccess(r.outcome)
    /\ ops' = ops + 1
    /\ UNCHANGED << inputVars, pairVars, mapVars, danger_space, current_plane, calcVars,
                    walkVars, distVars, copy_space >>

CallOperator ==
    /\ pc = "ready"
    /\ ops < MaxOps
    /\ \E c \in QueryCells, seconds \in AccessSeconds :
          \E r \in call_operator(c[1], c[2], seconds) :
             /\ ret' = [op |-> "operator()", outcome |-> r.outcome, value |-> r.value,
                        args |-> << c[1], c[2], seconds, 0 >>]
             /\ pc' = AfterAccess(r.outcome)
    /\ ops' = ops + 1
    /\ UNCHANGED << inputVars, pairVars, mapVars, danger_space, current_plane, calcVars,
                    walkVars, distVars, copy_space >>

AddDangerAt ==
    /\ pc = "ready"
    /\ ops < MaxOps
    /\ \E c \in QueryCells, seconds \in AccessSeconds, danger \in AccessDangers :
          \E r \in add_danger_at(c[1], c[2], seconds, danger) :
             /\ danger_space' = r.space
             /\ ret' = [op |-> "add_danger_at", outcome |-> r.outcome, value |-> 0,
                        args |-> << c[1], c[2], seconds, danger >>]
             /\ pc' = AfterAccess(r.outcome)
    /\ ops' = ops + 1
    /\ UNCHANGED << inputVars, pairVars, mapVars, current_plane, calcVars, walkVars,
                    distVars, copy_space >>

SetDangerAt ==
    /\ pc = "ready"
    /\ ops < MaxOps
    /\ \E c \in QueryCells, seconds \in AccessSeconds, danger \in AccessDangers :
          \E r \in set_danger_at(c[1], c[2], seconds, danger) :
             /\ danger_space' = r.space
             /\ ret' = [op |-> "set_danger_at", outcome |-> r.outcome, value |-> 0,
                        args |-> << c[1], c[2], seconds, danger >>]
             /\ pc' = AfterAccess(r.outcome)
    /\ ops' = ops + 1
    /\ UNCHANGED << inputVars, pairVars, mapVars, current_plane, calcVars, walkVars,
                    distVars, copy_space >>

\* a MaxField x MaxField grid of one-metre squares
InitAccess ==
    \E owner \in OwnerPlanes(MaxField), other \in ApiPlanes(MaxField), debug \in BOOLEAN :
        /\ owner.location = << 0, 0 >>
        /\ danger_grid(<< owner, other >>, Metres(MaxField), Metres(1), owner.id, debug)

NextAccess ==
    \/ FillDone
    \/ SkipOwner
    \/ MarkPlane
    \/ CalcEmpty
    \/ CalcFirstStep
    \/ RecurseStep
    \/ CalcTail
    \/ Consume
    \/ NextLoop
    \/ NextPlane
    \/ GetDangerAt
    \/ CallOperator
    \/ AddDangerAt
    \/ SetDangerAt

SpecAccess == InitAccess /\ [][NextAccess]_vars

(***************************************************************************)
(* The older danger_grid, whose calculate_distance_costs( goal_x, goal_y ) *)
(* blends the distance to the goal into danger_space in place.  The grid   *)
(* is one built from no aircraft, then written by set_danger_at.           *)
(***************************************************************************)
DirectSizes == {MaxField, MaxField + 1}

\* seconds whose slices lie on both sides of index look_ahead
DirectSeconds == { -look_behind, 0, look_ahead - look_behind - 1, look_ahead - look_behind }

\* 0.5 and 1.0
DirectDangers == { Unit \div 2, Unit }

\* "double danger_adjust = ( width + height ) / 4" on two unsigned ints
direct_danger_adjust(width, height) == (width + height) \div 4

\* the three nested loops of the older calculate_distance_costs
direct_calculate_distance_costs(space, goal_x, goal_y) ==
    LET width == space[0].squares_wide
        height == space[0].squares_high
    IN [crnt_t \in DOMAIN space |->
          IF crnt_t < look_ahead
          THEN [space[crnt_t] EXCEPT !.the_map =
                  [crnt_x \in 0..(width - 1) |->
                     [crnt_y \in 0..(height - 1) |->
                        direct_danger_adjust(width, height)
                            * map_get_danger_at(space[crnt_t], crnt_x, crnt_y)
                          + DistanceTo(crnt_x, crnt_y, goal_x, goal_y)]]]
          ELSE space[crnt_t]]

InitDirect ==
    /\ \E n \in DirectSizes :
          danger_space = [s \in Slices |-> map(Metres(n), Metres(n), Metres(1))]
    /\ set_up = NoMap /\ map_args = NoArgs
    /\ aircraft = << >> /\ plane_danger = 0 /\ grids = NoGrids
    /\ plane_id = 0 /\ DEBUG = FALSE /\ map_res = Metres(1)
    /\ distance_costs_initialized = FALSE /\ dist_map = NoMap
    /\ danger_ratings = << >>
    /\ pc = "direct" /\ current_plane = 1
    /\ call_no = 1 /\ dummy = 0 /\ e = NoEstimate /\ destination = << 0, 0 >>
    /\ neighbors = << 0, 0 >> /\ theFuture = << >> /\ step = NoStep
    /\ est_to_avoid = << >> /\ est_to_goal = << >> /\ est_break = 0
    /\ loop = 1 /\ current_est = 1 /\ t = 1
    /\ goal = << 0, 0 >> /\ adjust = 0
    /\ calls = 0 /\ ops = 0 /\ copy_space = << >> /\ ret = NoRet

\* set_danger_at of the older danger_grid, with seconds inside its range
DirectSetDangerAt ==
    /\ pc = "direct"
    /\ ops < MaxOps
    /\ \E c \in QueryCells, seconds \in DirectSeconds, danger \in DirectDangers :
          /\ danger_space' = [danger_space EXCEPT ![seconds + look_behind] =
                                 map_set_danger_at(@, c[1], c[2], danger)]
          /\ ret' = [op |-> "set_danger_at", outcome |-> "done", value |-> 0,
                     args |-> << c[1], c[2], seconds, danger >>]
    /\ ops' = ops + 1
    /\ UNCHANGED << inputVars, pairVars, mapVars, pc, current_plane, calcVars, walkVars,
                    distVars, copy_space >>

DirectCalculateDistanceCosts ==
    /\ pc = "direct"
    /\ calls < MaxCalls
    /\ \E g \in Goals :
          /\ danger_space' = direct_calculate_distance_costs(danger_space, g[1], g[2])
          /\ goal' = g
          /\ ret' = [op |-> "calculate_distance_costs", outcome |-> "done", value |-> 0,
                     args |-> g]
    /\ calls' = calls + 1
    /\ UNCHANGED << inputVars, pairVars, mapVars, pc, current_plane, calcVars, walkVars,
                    dist_map, distance_costs_initialized, adjust, ops, copy_space >>

NextDirect ==
    \/ DirectSetDangerAt
    \/ DirectCalculateDistanceCosts

SpecDirect == InitDirect /\ [][NextDirect]_vars

(***************************************************************************)
(* The grid made by danger_grid( const danger_grid * dg ).  The copy       *)
(* constructor assigns danger_space and no other member, so the copy's     *)
(* distance_costs_initialized and dist_map hold whatever was in the        *)
(* storage: the flag reads as either value and the pointer is one the copy *)
(* never got from new.  grids[1] holds these two members of the copy,      *)
(* "owned" telling whether dist_map came from the copy's own               *)
(* calculate_distance_costs, and copy_space holds its danger_space.        *)
(***************************************************************************)
Uninitialized == BOOLEAN

CopyGrid ==
    /\ pc = "ready"
    /\ grids = NoGrids
    /\ copy_space' = get_danger_space(danger_space)
    /\ \E flag \in Uninitialized :
          grids' = << [distance_costs_initialized |-> flag, dist_map |-> NoMap,
                       owned |-> FALSE, destroyed |-> FALSE] >>
    /\ ret' = [op |-> "copy", outcome |-> "done", value |-> 0, args |-> << >>]
    /\ UNCHANGED << inputVars, mapVars, danger_space, pc, current_plane, calcVars,
                    walkVars, distVars, ops >>

\* get_dist_cost_at( x_pos, y_pos ) on the copy
copy_get_dist_cost_at(dg, x_pos, y_pos) ==
    IF dg.distance_costs_initialized
    THEN IF dg.owned
         THEN { [outcome |-> "value", value |-> map_get_danger_at(dg.dist_map, x_pos, y_pos)] }
         ELSE { [outcome |-> "wild read", value |-> v] : v \in Garbage }
    ELSE IF DEBUG
    THEN { [outcome |-> "assert", value |-> 0] }
    ELSE { [outcome |-> "undefined", value |-> v] : v \in Garbage }

CopyGetDistCostAt ==
    /\ pc = "ready"
    /\ grids # NoGrids
    /\ ~grids[1].destroyed
    /\ \E c \in QueryCells : \E r \in copy_get_dist_cost_at(grids[1], c[1], c[2]) :
          /\ ret' = [op |-> "copy get_dist_cost_at", outcome |-> r.outcome,
                     value |-> r.value, args |-> c]
          /\ pc' = AfterOutcome(r.outcome)
    /\ UNCHANGED << inputVars, pairVars, mapVars, danger_space, current_plane, calcVars,
                    walkVars, distVars, ops, copy_space >>

\* calculate_distance_costs( goal_x, goal_y, danger_adjust ) on the copy
CopyCalculateDistanceCosts ==
    /\ pc = "ready"
    /\ grids # NoGrids
    /\ ~grids[1].destroyed
    /\ ~grids[1].owned
    /\ \E g \in Goals, a \in 1..MaxAdjust :
          LET res == get_res(copy_space)
          IN IF MapAsserts(copy_space[0].squares_wide * res,
                           copy_space[0].squares_high * res, res)
             THEN /\ grids' = << [grids[1] EXCEPT
                                    !.dist_map = DistMap(copy_space, g[1], g[2]),
                                    !.distance_costs_initialized = TRUE,
                                    !.owned = TRUE] >>
                  /\ copy_space' = BlendedSpace(copy_space, grids'[1].dist_map, a)
                  /\ ret' = [op |-> "copy calculate_distance_costs", outcome |-> "done",
                             value |-> 0, args |-> g]
                  /\ pc' = pc
             ELSE /\ ret' = [op |-> "copy calculate_distance_costs", outcome |-> "assert",
                             value |-> 0, args |-> g]
                  /\ pc' = "aborted"
                  /\ UNCHANGED << grids, copy_space >>
    /\ UNCHANGED << inputVars, mapVars, danger_space, current_plane, calcVars,
                    walkVars, distVars, ops >>

\* ~danger_grid( ) of the copy: "if( distance_costs_initialized ) delete dist_map;"
DestroyCopy ==
    /\ pc = "ready"
    /\ grids # NoGrids
    /\ ~grids[1].destroyed
    /\ grids' = << [grids[1] EXCEPT !.destroyed = TRUE] >>
    /\ ret' = [op |-> "copy destructor",
               outcome |-> IF grids[1].distance_costs_initialized
                           THEN IF grids[1].owned THEN "deleted dist_map"
                                ELSE "wild delete"
                           ELSE "done",
               value |-> 0, args |-> << >>]
    /\ UNCHANGED << inputVars, mapVars, danger_space, pc, current_plane, calcVars,
                    walkVars, distVars, ops, copy_space >>

NextCopy ==
    \/ FillDone
    \/ SkipOwner
    \/ MarkPlane
    \/ CalcEmpty
    \/ CalcFirstStep
    \/ RecurseStep
    \/ CalcTail
    \/ Consume
    \/ NextLoop
    \/ NextPlane
    \/ CalculateDistanceCosts
    \/ CopyGrid
    \/ CopyGetDistCostAt
    \/ CopyCalculateDistanceCosts
    \/ DestroyCopy

SpecCopy == InitApi /\ [][NextCopy]_vars

(***************************************************************************)
(* Naming a bearing.  bearing_t is the position of the name in the enum,   *)
(* bearings are in millidegrees, and fmod keeps the sign of its dividend.  *)
(***************************************************************************)
bearing_t == [N |-> 0, NE |-> 1, E |-> 2, SE |-> 3, S |-> 4, SW |-> 5, W |-> 6, NW |-> 7]

MaxTurns == 160

BearingStep == 2500

BearingInputs == { k * BearingStep : k \in -MaxTurns .. MaxTurns }

fmod(x, y) == IF x >= 0 THEN x % y ELSE -((-x) % y)

name_bearing(the_bearing) ==
    LET b == fmod(the_bearing, 360000)
    IN IF b > -22500 /\ b <= 22500 THEN bearing_t.N
       ELSE IF b > 22500 /\ b <= 67500 THEN bearing_t.NE
       ELSE IF b > 67500 /\ b <= 112500 THEN bearing_t.E
       ELSE IF b > 112500 /\ b <= 157500 THEN bearing_t.SE
       ELSE IF b > 157500 /\ b <= 202500 THEN bearing_t.S
       ELSE IF b > 202500 /\ b <= 247500 THEN bearing_t.SW
       ELSE IF b > 247500 /\ b <= 292500 THEN bearing_t.W
       ELSE IF b > 292500 /\ b <= 337500 THEN bearing_t.NW
       ELSE IF b > -67500 /\ b <= -22500 THEN bearing_t.NW
       ELSE IF b > -112500 /\ b <= -67500 THEN bearing_t.W
       ELSE IF b > -157500 /\ b <= -112500 THEN bearing_t.SW
       ELSE IF b > -202500 /\ b <= -157500 THEN bearing_t.S
       ELSE IF b > -247500 /\ b <= -202500 THEN bearing_t.SE
       ELSE IF b > -292500 /\ b <= -247500 THEN bearing_t.E
       ELSE IF b > -337500 /\ b <= -292500 THEN bearing_t.NW
       ELSE bearing_t.N

\* name_bearing of the older danger_grid: no branch for a negative remainder
older_name_bearing(the_bearing) ==
    LET b == fmod(the_bearing, 360000)
    IN IF b > -22500 /\ b <= 22500 THEN bearing_t.N
       ELSE IF b > 22500 /\ b <= 67500 THEN bearing_t.NE
       ELSE IF b > 67500 /\ b <= 112500 THEN bearing_t.E
       ELSE IF b > 112500 /\ b <= 157500 THEN bearing_t.SE
       ELSE IF b > 157500 /\ b <= 202500 THEN bearing_t.S
       ELSE IF b > 202500 /\ b <= 247500 THEN bearing_t.SW
       ELSE IF b > 247500 /\ b <= 292500 THEN bearing_t.W
       ELSE IF b > 292500 /\ b <= 337500 THEN bearing_t.NW
       ELSE bearing_t.N

InitBearing ==
    /\ danger_space = << >> /\ set_up = NoMap /\ map_args = NoArgs
    /\ aircraft = << >> /\ plane_danger = 0 /\ grids = NoGrids
    /\ plane_id = 0 /\ DEBUG \in BOOLEAN /\ map_res = Metres(1)
    /\ distance_costs_initialized = FALSE /\ dist_map = NoMap
    /\ danger_ratings = << >>
    /\ pc = "bearing" /\ current_plane = 1
    /\ call_no = 1 /\ dummy = 0 /\ e = NoEstimate /\ destination = << 0, 0 >>
    /\ neighbors = << 0, 0 >> /\ theFuture = << >> /\ step = NoStep
    /\ est_to_avoid = << >> /\ est_to_goal = << >> /\ est_break = 0
    /\ loop = 1 /\ current_est = 1 /\ t = 1
    /\ goal = << 0, 0 >> /\ adjust = 0
    /\ calls = 0 /\ ops = 0 /\ copy_space = << >> /\ ret = NoRet

NameBearing ==
    /\ pc = "bearing"
    /\ \E the_bearing \in BearingInputs :
          ret' = [op |-> "name_bearing", outcome |-> "done",
                  value |-> name_bearing(the_bearing), args |-> << the_bearing >>]
    /\ UNCHANGED << inputVars, pairVars, mapVars, pc, current_plane, calcVars, walkVars,
                    distVars, danger_space, ops, copy_space >>

OlderNameBearing ==
    /\ pc = "bearing"
    /\ \E the_bearing \in BearingInputs :
          ret' = [op |-> "older name_bearing", outcome |-> "done",
                  value |-> older_name_bearing(the_bearing), args |-> << the_bearing >>]
    /\ UNCHANGED << inputVars, pairVars, mapVars, pc, current_plane, calcVars, walkVars,
                    distVars, danger_space, ops, copy_space >>

NextBearing ==
    \/ NameBearing
    \/ OlderNameBearing

SpecBearing == InitBearing /\ [][NextBearing]_vars

(***************************************************************************)
(* Vocabulary of the properties.                                           *)
(***************************************************************************)

Width == danger_space[0].squares_wide
Height == danger_space[0].squares_high
Cells == (0..(Width - 1)) \X (0..(Height - 1))

\* the grid as its constructor leaves it: filled, no public operation yet
Constructed == pc = "ready" /\ ~distance_costs_initialized

NonOwners == { i \in 1..Len(aircraft) : aircraft[i].id # plane_id }
Owners == { i \in 1..Len(aircraft) : aircraft[i].id = plane_id }

IsTimestamp(est) == est.danger < 0

OnGrid(est) == est.x >= 0 /\ est.x < Width /\ est.y >= 0 /\ est.y < Height

\* the estimate loop is about to look at Stream[current_est]
Consuming == pc = "walk" /\ current_est <= Len(Stream)

(***************************************************************************)
(* C1.  During the estimate loops the time counter t changes only when a   *)
(* timestamp marker (sentinel) is consumed; an estimate that is not a      *)
(* marker and lies off the grid leaves t unchanged.                        *)
(***************************************************************************)
C1_TimeAdvancesOnlyOnSentinel ==
    [][(Consuming /\ pc' = "walk" /\ loop' = loop /\ t' # t)
          => IsTimestamp(Stream[current_est])]_vars

(***************************************************************************)
(* C2.  The owner contributes nothing: the constructed field is the field  *)
(* constructed from the snapshot without the owner's entry.                *)
(***************************************************************************)
WithoutOwner == SelectSeq(aircraft, LAMBDA p : p.id # plane_id)

BlankSpace ==
    [s \in Slices |-> map(danger_space[0].width, danger_space[0].height,
                          danger_space[0].resolution)]

C2_OwnerContributesNothing ==
    Constructed =>
        danger_space = fill_danger_space(BlankSpace, danger_ratings, plane_danger,
                                         WithoutOwner, plane_id)

C2_Witness ==
    /\ Constructed
    /\ \E i \in Owners :
         /\ aircraft[i].location # aircraft[i].destination
         /\ get_danger_at(aircraft[i].location[1], aircraft[i].location[2], 0) = 0
    /\ \E i \in NonOwners :
         get_danger_at(aircraft[i].location[1], aircraft[i].location[2], 0) > 0

(***************************************************************************)
(* C3.  The end-to-end scenario: a 10 x 10 grid of resolution 1, the owner *)
(* at (0,0), one other aircraft at (9,9) whose final destination is (0,0)  *)
(* and which has no avoidance waypoint (its destination is its final       *)
(* destination).                                                           *)
(*   As claimed: risk_at(9,9,0) is the occupied constant and               *)
(*   risk_at(0,0,20) is strictly positive.                                 *)
(*   As amended: risk_at(9,9,0) is the occupied constant, risk_at(0,0,9)   *)
(*   is strictly positive (the aircraft is predicted to arrive at second   *)
(*   9) and risk_at(0,0,20) is 0.                                          *)
(***************************************************************************)
Scenario3 ==
    /\ Constructed
    /\ Width = 10 /\ Height = 10 /\ danger_space[0].resolution = Metres(1)
    /\ Len(aircraft) = 2
    /\ aircraft[1].id = plane_id /\ aircraft[1].location = << 0, 0 >>
    /\ aircraft[2].id # plane_id /\ aircraft[2].location = << 9, 9 >>
    /\ aircraft[2].destination = << 0, 0 >>
    /\ aircraft[2].finalDestination = << 0, 0 >>

C3_Original ==
    Scenario3 => (get_danger_at(9, 9, 0) = plane_danger /\ get_danger_at(0, 0, 20) > 0)

C3_Amended ==
    Scenario3
        => /\ get_danger_at(9, 9, 0) = plane_danger
           /\ get_danger_at(0, 0, 9) > 0
           /\ get_danger_at(0, 0, 20) = 0

C3_Witness ==
    /\ Scenario3
    /\ est_to_avoid # << >>
    /\ get_danger_at(0, 0, 9) > 0

(***************************************************************************)
(* C4.  Precomputed-map blend: one call of calculate_distance_costs on a   *)
(* fresh field leaves, in every slice and every cell, danger_adjust *      *)
(* original + distance where the original danger exceeded the negligible   *)
(* threshold, and the pure distance elsewhere.                             *)
(***************************************************************************)
C4_BlendInEverySlice ==
    [][(Constructed /\ distance_costs_initialized')
          => \A s \in Slices : \A c \in Cells :
                LET original == map_get_danger_at(danger_space[s], c[1], c[2])
                    distance == DistanceTo(c[1], c[2], goal'[1], goal'[2])
                IN map_get_danger_at(danger_space'[s], c[1], c[2]) =
                     IF original > 0 THEN adjust' * original + distance ELSE distance]_vars

(***************************************************************************)
(* C5.  For a plane whose destination differs from its final destination,  *)
(* whatever its location, both legs are projected (location -> destination *)
(* unless already there, destination -> final destination), and the second *)
(* estimate loop starts at the second after the first leg's arrival.       *)
(***************************************************************************)
Adjacent(est, point) == Abs(est.x - point[1]) <= 1 /\ Abs(est.y - point[2]) <= 1

\* the second at which a stream arrives: its steps; the tail holds two more markers
ArrivalSecond(ests) ==
    IF ests = << >> THEN 0
    ELSE Cardinality({ k \in 1..Len(ests) : ests[k] = Sentinel }) - 2

C5_BothLegsProjected ==
    \A i \in NonOwners :
       (pc = "walk" /\ current_plane = i
          /\ aircraft[i].destination # aircraft[i].finalDestination)
       => /\ (aircraft[i].location # aircraft[i].destination => est_to_avoid # << >>)
          /\ est_to_goal # << >>
          /\ Adjacent(est_to_goal[1], aircraft[i].destination)
          /\ (loop = 2 /\ current_est = 1) => t = ArrivalSecond(est_to_avoid) + 1

(***************************************************************************)
(* C6.  Before any distance-cost blend every cell of every slice has a     *)
(* danger >= 0.                                                            *)
(***************************************************************************)
C6_DangerNonNegative ==
    ~distance_costs_initialized
        => \A s \in Slices : \A c \in Cells :
              map_get_danger_at(danger_space[s], c[1], c[2]) >= 0

C6_Witness ==
    /\ Constructed
    /\ est_to_avoid # << >>
    /\ \E s \in Slices : \E c \in Cells :
         s > look_behind /\ map_get_danger_at(danger_space[s], c[1], c[2]) > 0

(***************************************************************************)
(* C7.  The calls of safely_add_danger_at that fall off the grid change no *)
(* cell of any slice: when the estimate loop writes an estimate whose cell *)
(* is on the border of the grid, every cell of every slice changes by      *)
(* exactly what the calls on the grid add (the danger at the cell itself,  *)
(* the weighted danger at its neighbours on the grid, nothing elsewhere).  *)
(***************************************************************************)
OnBorder(est) ==
    est.x = 0 \/ est.y = 0 \/ est.x = Width - 1 \/ est.y = Height - 1

WritesBorderCell ==
    /\ Consuming
    /\ t <= look_ahead
    /\ IsLegal(danger_space, Stream[current_est])
    /\ OnBorder(Stream[current_est])

OnlyStartMarked ==
    /\ est_to_avoid = << >>
    /\ est_to_goal = << >>
    /\ \A s \in Slices \ {look_behind} : \A c \in Cells :
          map_get_danger_at(danger_space[s], c[1], c[2]) = 0

C8_Original ==
    (Constructed /\ Cardinality(NonOwners) = 1)
        => \A i \in NonOwners :
              aircraft[i].location = aircraft[i].finalDestination => OnlyStartMarked

C8_Amended ==
    (Constructed /\ Cardinality(NonOwners) = 1)
        => \A i \in NonOwners :
              (/\ aircraft[i].location = aircraft[i].destination
               /\ aircraft[i].location = aircraft[i].finalDestination) => OnlyStartMarked

C8_Witness ==
    /\ Constructed
    /\ Cardinality(NonOwners) = 1
    /\ \E i \in NonOwners :
         /\ aircraft[i].location = aircraft[i].destination
         /\ aircraft[i].location = aircraft[i].finalDestination
         /\ get_danger_at(aircraft[i].location[1], aircraft[i].location[2], 0) = plane_danger

(***************************************************************************)
(* C9.  A single non-owner aircraft flying due north from (5,5) to (5,1)   *)
(* on a grid of at least 10 x 10 cells of resolution 1: every step selects *)
(* the cell with x = 5 and y one less than before, and after the fill the  *)
(* cells (4,4) and (6,4) of the slice of second 1 have a danger above 0.   *)
(***************************************************************************)
Scenario9(i) ==
    /\ Cardinality(NonOwners) = 1
    /\ Width >= 10 /\ Height >= 10 /\ danger_space[0].resolution = Metres(1)
    /\ aircraft[i].location = << 5, 5 >>
    /\ aircraft[i].destination = << 5, 1 >>

C9_DueNorth ==
    \A i \in NonOwners :
       Scenario9(i) =>
          /\ (pc = "recurse" /\ call_no = 1 /\ current_plane = i)
                => (step.angle = 0 /\ e.x = 5 /\ e.y = 5 - dummy)
          /\ Constructed => (get_danger_at(4, 4, 1) > 0 /\ get_danger_at(6, 4, 1) > 0)

C9_Witness ==
    /\ Constructed
    /\ \E i \in NonOwners : Scenario9(i)
    /\ get_danger_at(4, 4, 1) > 0
    /\ get_danger_at(5, 1, 4) > 0

(***************************************************************************)
(* C10.  Mass split: at every projection step the two fractions are in     *)
(* [0, 1] and sum to 1 before the ceiling, the two estimates pushed carry  *)
(* the fractions cut at the ceiling, and every estimate of every stream    *)
(* that is not a timestamp marker carries a danger in [0, 0.4].            *)
(***************************************************************************)
InCeiling(est) == est = Sentinel \/ (est.danger >= 0 /\ est.danger <= dangerCeiling)

C10_MassSplit ==
    /\ step # NoStep =>
          /\ step.danger >= 0 /\ step.remaining >= 0
          /\ step.danger + step.remaining = Unit
          /\ step.pair[1].danger = Ceiling(step.danger)
          /\ step.pair[2].danger = Ceiling(step.remaining)
    /\ \A k \in 1..Len(theFuture) : InCeiling(theFuture[k])
    /\ \A k \in 1..Len(est_to_avoid) : InCeiling(est_to_avoid[k])
    /\ \A k \in 1..Len(est_to_goal) : InCeiling(est_to_goal[k])

\* a step whose remainder is above zero and below the ceiling
C10_Witness ==
    /\ step # NoStep
    /\ step.remaining > 0 /\ step.remaining < dangerCeiling
    /\ step.danger > dangerCeiling
    /\ step.pair[1].danger = dangerCeiling

(***************************************************************************)
(* C11.  Copy round trip: right after the copy constructor has run, the    *)
(* copy answers get_danger_at( x, y, seconds ) as its source does, for     *)
(* every cell and every second, whether or not the source was blended with *)
(* distance costs.                                                         *)
(***************************************************************************)
copy_get_danger_at(x_pos, y_pos, seconds) ==
    map_get_danger_at(copy_space[seconds + look_behind], x_pos, y_pos)

Seconds == (0 - look_behind)..look_ahead

C11_CopyRoundTrip ==
    ret.op = "copy"
        => /\ DOMAIN copy_space = Slices
           /\ \A seconds \in Seconds : \A c \in Cells :
                 copy_get_danger_at(c[1], c[2], seconds) = get_danger_at(c[1], c[2], seconds)

\* a copy of a blended source with danger in it: the source cell holds more
\* than its distance to the goal
C11_Witness ==
    /\ ret.op = "copy"
    /\ distance_costs_initialized
    /\ \E seconds \in Seconds : \E c \in Cells :
          copy_get_danger_at(c[1], c[2], seconds) > DistanceTo(c[1], c[2], goal[1], goal[2])

(***************************************************************************)
(* C12.  Distance-cost blending is not idempotent: a second call with the  *)
(* same goal is possible and changes the field again; where the blended    *)
(* value of a slice below look_ahead was positive it becomes               *)
(* danger_adjust * value + distance.                                       *)
(***************************************************************************)
C12_SecondCallCompounds ==
    [][(distance_costs_initialized /\ calls' = calls + 1 /\ goal' = goal)
          => /\ danger_space' # danger_space
             /\ \A s \in 0..(look_ahead - 1) : \A c \in Cells :
                   LET blended == map_get_danger_at(danger_space[s], c[1], c[2])
                       distance == DistanceTo(c[1], c[2], goal[1], goal[2])
                   IN blended > 0 =>
                        map_get_danger_at(danger_space'[s], c[1], c[2]) =
                            adjust' * blended + distance]_vars

\* two calls with one goal: slice 0, which held no danger, holds the
\* distance, compounded, in every cell
C12_Witness ==
    /\ calls = 2
    /\ \A c \in Cells :
          map_get_danger_at(danger_space[0], c[1], c[2]) =
              (adjust + 1) * DistanceTo(c[1], c[2], goal[1], goal[2])
    /\ \E c \in Cells : get_danger_at(c[1], c[2], 0) > 0

(***************************************************************************)
(* C13.  get_dist_cost_at is served only after calculate_distance_costs:   *)
(* the flag is false until the first call, true from then on; a query with *)
(* the flag set returns the straight-line distance to the goal last given. *)
(*   As claimed: a query with the flag unset fails an assertion.           *)
(*   As amended: a query with the flag unset fails an assertion in a build *)
(*   with DEBUG; in neither build does it compute the distance map or set  *)
(*   the flag.                                                             *)
(***************************************************************************)
Queried == ret' # ret /\ ret'.op = "get_dist_cost_at"

FlagLifeCycle ==
    /\ calls = 0 => ~distance_costs_initialized
    /\ calls > 0 => distance_costs_initialized
    /\ distance_costs_initialized => distance_costs_initialized'

ServedWhenSet ==
    (Queried /\ distance_costs_initialized)
        => /\ ret'.outcome = "value"
           /\ ret'.value = DistanceTo(ret'.args[1], ret'.args[2], goal[1], goal[2])

NoImplicitCompute ==
    Queried => (dist_map' = dist_map /\ danger_space' = danger_space
                /\ distance_costs_initialized' = distance_costs_initialized)

OccupantsOf(c) == { i \in NonOwners : aircraft[i].location = c }

C14_OccupiedIsSet ==
    Constructed =>
        \A c \in Cells :
            OccupantsOf(c) # {} => get_danger_at(c[1], c[2], 0) = plane_danger

(***************************************************************************)
(* C15.  Two grids constructed at once from a snapshot nobody writes: in   *)
(* every interleaving each grid ends as it would when constructed alone.   *)
(***************************************************************************)
ConstructedAlone(n, id) ==
    LET pd == PlaneDanger(find_width_in_squares(Metres(n), Metres(n), Metres(1)),
                          find_height_in_squares(Metres(n), Metres(n), Metres(1)))
    IN [danger_ratings |-> set_danger_scale(pd),
        danger_space |-> fill_danger_space([s \in Slices |-> map(Metres(n), Metres(n), Metres(1))],
                                           set_danger_scale(pd), pd, aircraft, id)]

C15_ConcurrentConstruction ==
    \A g \in DOMAIN grids :
        grids[g].at = "done"
            => LET alone == ConstructedAlone(grids[g].width, grids[g].plane_id)
               IN /\ grids[g].danger_space = alone.danger_space
                  /\ grids[g].danger_ratings = alone.danger_ratings

(***************************************************************************)
(* C16.  After construction danger_space holds look_behind + look_ahead +  *)
(* 1 maps, one per second from -look_behind to look_ahead, and             *)
(* danger_ratings has as many entries as danger_space has maps.            *)
(***************************************************************************)
C16_RatingsMatchSlices ==
    Constructed =>
        /\ DOMAIN danger_space = 0..(look_behind + look_ahead)
        /\ Cardinality(DOMAIN danger_space) = look_behind + look_ahead + 1
        /\ Len(danger_ratings) = Cardinality(DOMAIN danger_space)

(***************************************************************************)
(* C17.  A map made from a positive width, height and resolution is        *)
(* ceil( width / resolution ) squares wide and ceil( height / resolution ) *)
(* squares high, so at least one square each way, and that is what         *)
(* find_width_in_squares and find_height_in_squares give.                  *)
(***************************************************************************)
CeilDiv(a, b) == IF a % b = 0 THEN a \div b ELSE (a \div b) + 1

C17_SquaresAreCeiling ==
    ret.op = "map" =>
        /\ set_up.squares_wide = CeilDiv(map_args.width, map_args.resolution)
        /\ set_up.squares_high = CeilDiv(map_args.height, map_args.resolution)
        /\ set_up.squares_wide >= 1 /\ set_up.squares_high >= 1
        /\ set_up.squares_wide =
              find_width_in_squares(map_args.width, map_args.height, map_args.resolution)
        /\ set_up.squares_high =
              find_height_in_squares(map_args.width, map_args.height, map_args.resolution)

(***************************************************************************)
(* C18.  From construction on, also when calculate_distance_costs replaces *)
(* danger_space by copies of the distance map, all maps of danger_space    *)
(* have one width and one height in squares, those of the construction.    *)
(***************************************************************************)
Shape(m) == << m.squares_wide, m.squares_high >>

HasShape(m, shape) ==
    /\ Shape(m) = shape
    /\ DOMAIN m.the_map = 0..(shape[1] - 1)
    /\ \A x \in DOMAIN m.the_map : DOMAIN m.the_map[x] = 0..(shape[2] - 1)

SameShape(space) == \A s \in DOMAIN space : HasShape(space[s], Shape(space[0]))

C18_ShapeKept ==
    [][/\ SameShape(danger_space)
       /\ SameShape(danger_space')
       /\ Shape(danger_space'[0]) = Shape(danger_space[0])]_vars

\* the maps have been replaced by maps of another resolution: get_res( )
\* gave 1 for the 1.5 the grid was constructed with
C18_Witness ==
    /\ distance_costs_initialized
    /\ danger_space[0].resolution # map_res
    /\ SameShape(danger_space)
    /\ Width = MaxField

(***************************************************************************)
(* C19: in a build with DEBUG defined, add_danger_at called with a         *)
(* negative danger fails an assertion, and so no square's danger is lower  *)
(* after the call than before it.                                          *)
(***************************************************************************)
AccessorCalled(op) == ops' = ops + 1 /\ ret'.op = op

NoSquareLower ==
    \A s \in DOMAIN danger_space : \A c \in Cells :
        danger_space'[s].the_map[c[1]][c[2]] >= danger_space[s].the_map[c[1]][c[2]]

C19_NegativeRejected ==
    [][ (DEBUG /\ AccessorCalled("add_danger_at") /\ ret'.args[4] < 0)
            => (ret'.outcome = "assert" /\ pc' = "aborted" /\ NoSquareLower) ]_vars

(***************************************************************************)
(* C20: for seconds in [-look_behind, look_ahead], get_danger_at and       *)
(* operator( ) return the danger of square (x, y) of slice                 *)
(* seconds + look_behind and change nothing; add_danger_at and             *)
(* set_danger_at change that square of that slice, to its old danger plus  *)
(* the argument and to the argument, and no other square of any slice; a   *)
(* write that is not carried out is one a build with DEBUG defined stopped *)
(* for its danger.  With DEBUG defined, every call with seconds outside    *)
(* the range fails an assertion and changes nothing.                       *)
(***************************************************************************)
OnlySquareChanged(x, y, seconds, danger) ==
    /\ DOMAIN danger_space' = DOMAIN danger_space
    /\ \A s \in DOMAIN danger_space :
          /\ danger_space'[s].squares_wide = danger_space[s].squares_wide
          /\ danger_space'[s].squares_high = danger_space[s].squares_high
          /\ danger_space'[s].resolution = danger_space[s].resolution
          /\ \A c \in Cells :
                danger_space'[s].the_map[c[1]][c[2]] =
                    IF s = seconds + look_behind /\ c = << x, y >>
                    THEN danger
                    ELSE danger_space[s].the_map[c[1]][c[2]]

AccessorContract(op, outcome, value, x, y, seconds, danger) ==
    LET slice == danger_space[seconds + look_behind]
        reads == op \in {"get_danger_at", "operator()"}
    IN IF seconds \in (-look_behind)..look_ahead
       THEN IF reads
            THEN /\ outcome = "value"
                 /\ value = slice.the_map[x][y]
                 /\ danger_space' = danger_space
            ELSE IF outcome = "done"
            THEN OnlySquareChanged(x, y, seconds,
                                   IF op = "add_danger_at"
                                   THEN slice.the_map[x][y] + danger ELSE danger)
            ELSE /\ DEBUG /\ danger <= -Unit
                 /\ outcome = "assert" /\ pc' = "aborted"
                 /\ danger_space' = danger_space
       ELSE DEBUG => /\ outcome = "assert" /\ pc' = "aborted"
                     /\ danger_space' = danger_space

C20_AccessorsTouchOneSquare ==
    [][ (ops' = ops + 1)
            => AccessorContract(ret'.op, ret'.outcome, ret'.value, ret'.args[1],
                                ret'.args[2], ret'.args[3], ret'.args[4]) ]_vars

\* add_danger_at has raised one square of the last slice, on a grid that
\* an earlier call has already touched
C20_Witness ==
    /\ ops = MaxOps
    /\ ret.op = "add_danger_at" /\ ret.outcome = "done"
    /\ ret.args[3] = look_ahead /\ ret.args[4] > 0
    /\ get_danger_at(ret.args[1], ret.args[2], look_ahead) >= ret.args[4]

(***************************************************************************)
(* C21: one call of the older calculate_distance_costs( goal_x, goal_y )   *)
(* leaves, in every square of every slice with index below look_ahead,     *)
(* danger_adjust times the danger it held plus the straight-line distance  *)
(* to the goal, with danger_adjust = (width + height) / 4 in squares, and  *)
(* leaves every other slice as it was.  Compared in quarters of a          *)
(* thousandth, so that the quarter is exact.                               *)
(***************************************************************************)
C21_DirectBlend ==
    [][ (pc = "direct" /\ calls' = calls + 1)
            => \A s \in DOMAIN danger_space : \A c \in Cells :
                  LET before == danger_space[s].the_map[c[1]][c[2]]
                      after == danger_space'[s].the_map[c[1]][c[2]]
                  IN IF s < look_ahead
                     THEN 4 * after = (Width + Height) * before
                                        + 4 * DistanceTo(c[1], c[2], goal'[1], goal'[2])
                     ELSE after = before ]_vars

(***************************************************************************)
(* C22: an estimate that is not a divider, lies on the grid and is         *)
(* consumed while t <= look_ahead adds its danger times adjust_danger( t ) *)
(* to its square of slice t + look_behind, and adjust_danger( t ) is       *)
(* plane_danger for every t; an estimate consumed once t > look_ahead      *)
(* changes no square.                                                      *)
(***************************************************************************)
FlatScale == \A s \in (-look_behind)..look_ahead : adjust_danger(danger_ratings, s) = plane_danger

Higher(pair) == IF pair[1].danger >= pair[2].danger THEN pair[1].danger ELSE pair[2].danger

ProjectionStepTaken == pc \in {"calc", "recurse"} /\ pc' = "recurse" /\ dummy' = dummy + 1

C23_HigherRiskFollowed ==
    [][ ProjectionStepTaken
            => /\ e' \in { step'.pair[1], step'.pair[2] }
               /\ e'.danger = Higher(step'.pair)
               /\ theFuture' = (IF pc = "calc" THEN << >> ELSE theFuture)
                                  \o step'.pair \o << Sentinel >> ]_vars

(***************************************************************************)
(* C24: for every two distinct squares (start, destination) the projection *)
(* terminates; dangerRecurse returns exactly when the estimate it was      *)
(* handed is at the destination; and the estimate each step hands on is    *)
(* strictly closer to the destination than the point the step started      *)
(* from.                                                                   *)
(***************************************************************************)
SquaredDistance(x, y, dest) ==
    (x - dest[1]) * (x - dest[1]) + (y - dest[2]) * (y - dest[2])

StepFrom ==
    IF pc = "calc"
    THEN Endpoints(aircraft[current_plane], dummy).current
    ELSE << e.x, e.y >>

C24_StepsApproach ==
    [][ /\ ProjectionStepTaken
            => SquaredDistance(e'.x, e'.y, destination')
                 < SquaredDistance(StepFrom[1], StepFrom[2], destination')
        /\ (ProjectionStepTaken /\ pc = "recurse") => ~(e.x = destination[1] /\ e.y = destination[2])
        /\ (pc = "recurse" /\ pc' # "recurse") => (e.x = destination[1] /\ e.y = destination[2])
      ]_vars

C24_ProjectionTerminates == C24_StepsApproach /\ ((pc = "recurse") ~> (pc # "recurse"))

\* a projection of several steps has returned with its last estimate at
\* the destination
C24_Witness ==
    /\ pc = "walk" /\ loop = 1 /\ current_est = 1
    /\ est_break >= 3
    /\ e.x = destination[1] /\ e.y = destination[2]
    /\ aircraft[current_plane].location # aircraft[current_plane].destination

(***************************************************************************)
(* C25: for an aircraft whose destination and final destination differ,    *)
(* the tail of three clusters is appended only to the projection that      *)
(* arrives at the final destination, starts next to the final destination  *)
(* and follows the estimates of the arrival; the projection that arrives   *)
(* at any other point gets no tail.                                        *)
(***************************************************************************)
NextTo(est, point) == Abs(est.x - point[1]) <= 1 /\ Abs(est.y - point[2]) <= 1

ProjectionReturns == pc = "recurse" /\ pc' # "recurse"

C25_TailAtFinalOnly ==
    [][ (/\ ProjectionReturns
         /\ aircraft[current_plane].destination # aircraft[current_plane].finalDestination)
            => LET final == aircraft[current_plane].finalDestination
                   appended == SubSeq(theFuture', Len(theFuture) + 1, Len(theFuture'))
               IN /\ SubSeq(theFuture', 1, Len(theFuture)) = theFuture
                  /\ IF destination = final
                     THEN /\ Len(appended) = 8
                          /\ NextTo(appended[1], final) /\ NextTo(appended[2], final)
                          /\ appended[3] = Sentinel /\ appended[6] = Sentinel
                     ELSE appended = << >> ]_vars

(***************************************************************************)
(* C26: set_danger_field called for danger d at square (x, y) of a slice   *)
(* adds d * field_weight to each of the eight neighbours of (x, y) that is *)
(* on the grid, whatever the bearing of the aircraft, and changes neither  *)
(* (x, y) itself, nor any other square of the slice, nor any other slice.  *)
(* Stated of the step that consumes an estimate: it adds d to (x, y),      *)
(* which is the add_danger_at before the call, and the rest is the call.   *)
(***************************************************************************)
C26_SpreadToNeighbours ==
    [][ (/\ pc = "walk" /\ current_est' = current_est + 1
         /\ t <= look_ahead /\ IsLegal(danger_space, Stream[current_est]))
            => LET est == Stream[current_est]
                   d == (est.danger * adjust_danger(danger_ratings, t)) \div Unit
                   spread == (d * FieldWeightNum) \div FieldWeightDen
               IN \A s \in DOMAIN danger_space : \A c \in Cells :
                     danger_space'[s].the_map[c[1]][c[2]] =
                        danger_space[s].the_map[c[1]][c[2]]
                          + (IF s # t + look_behind THEN 0
                             ELSE IF c = << est.x, est.y >> THEN d
                             ELSE IF NextTo(est, c) THEN spread
                             ELSE 0) ]_vars

\* an estimate on the western edge has just been consumed: its eastern
\* neighbour holds spread danger and it has no western neighbour
C26_Witness ==
    /\ pc = "walk" /\ current_est > 1 /\ current_est - 1 <= Len(Stream)
    /\ t <= look_ahead
    /\ LET est == Stream[current_est - 1]
       IN /\ IsLegal(danger_space, est) /\ est.danger > 0
          /\ est.x = 0
          /\ aircraft[current_plane].bearingToDest # 0
          /\ danger_space[t + look_behind].the_map[1][est.y] > 0

(***************************************************************************)
(* C27: name_bearing maps every bearing b with -360 < b < 360 degrees to   *)
(* the name of the 45-degree sector that holds b modulo 360 (N for         *)
(* -22.5 < b <= 22.5, NE for 22.5 < b <= 67.5, and so on clockwise), so    *)
(* that a negative b and b + 360 get the same name.                        *)
(***************************************************************************)
Sector(b) == (((b % 360000) + 22499) \div 45000) % 8

C27_SectorOfBearing ==
    (/\ ret.op \in {"name_bearing", "older name_bearing"}
     /\ ret.args[1] > -360000 /\ ret.args[1] < 360000)
        => /\ ret.value = Sector(ret.args[1])
           /\ ret.args[1] < 0 =>
                 /\ ret.op = "name_bearing" =>
                       ret.value = name_bearing(ret.args[1] + 360000)
                 /\ ret.op = "older name_bearing" =>
                       ret.value = older_name_bearing(ret.args[1] + 360000)

(***************************************************************************)
(* C28: construction writes only into the slices of offset 0..look_ahead:  *)
(* the mark of an aircraft's position goes to index look_behind and every  *)
(* projected or spread write to an index in look_behind + 1 ..             *)
(* look_behind + look_ahead, so no write falls outside the sequence of     *)
(* slices and every square of the slices of index 0 .. look_behind - 1 is  *)
(* 0 during and after construction.                                        *)
(***************************************************************************)
LookBehindBlank ==
    \A s \in 0..(look_behind - 1) : \A c \in Cells :
        danger_space[s].the_map[c[1]][c[2]] = 0

WrittenSlices == { s \in Slices : danger_space'[s] # danger_space[s] }

C28_WritesAheadOnly ==
    /\ [](~distance_costs_initialized =>
             (DOMAIN danger_space = Slices /\ LookBehindBlank))
    /\ [][ pc # "ready" =>
             /\ DOMAIN danger_space' = Slices
             /\ pc = "plane" => WrittenSlices \subseteq {look_behind}
             /\ pc # "plane" =>
                   /\ WrittenSlices \subseteq (look_behind + 1)..(look_behind + look_ahead)
                   /\ WrittenSlices \subseteq {t + look_behind} ]_vars

\* a constructed grid with danger in the slice of the mark, in the first
\* slice after it and in the last slice of all
C28_Witness ==
    /\ Constructed
    /\ \A s \in {look_behind, look_behind + 1, look_behind + look_ahead} :
          \E c \in Cells : danger_space[s].the_map[c[1]][c[2]] > 0

(***************************************************************************)
(* C29: the grid made by the copy constructor has its                      *)
(* distance_costs_initialized flag defined and false, whether or not the   *)
(* source had its distance costs blended in, so get_dist_cost_at on the    *)
(* copy serves no value until calculate_distance_costs has run on the      *)
(* copy, and destroying the copy deletes no dist_map it does not own.      *)
(***************************************************************************)
C29_CopyFlagFalse ==
    (grids # NoGrids /\ ~grids[1].owned)
        => /\ ~grids[1].distance_costs_initialized
           /\ ret.op = "copy get_dist_cost_at" =>
                 ret.outcome \notin {"value", "wild read"}
           /\ ret.op = "copy destructor" => ret.outcome = "done"

(***************************************************************************)
(* C30: the constructed field does not depend on the order of the aircraft *)
(* in the snapshot: for every permutation of the aircraft list and the     *)
(* same owner id, construction gives the same risk at every (x, y, t).     *)
(***************************************************************************)
Orders == { p \in [1..Len(aircraft) -> 1..Len(aircraft)] :
              \A i, j \in 1..Len(aircraft) : i # j => p[i] # p[j] }

Reordered(p) == [i \in 1..Len(aircraft) |-> aircraft[p[i]]]

Alone(i) == fill_danger_space(BlankSpace, danger_ratings, plane_danger,
                              << aircraft[i] >>, plane_id)

\* fill_danger_space over planes[i], planes[i + 1], ... starting from space,
\* one aircraft after the other as its loop does, gives the grid that was built
RECURSIVE FilledInOrder(_, _, _)
FilledInOrder(space, planes, i) ==
    IF i > Len(planes) THEN space = danger_space
    ELSE \A next \in { fill_danger_space(space, danger_ratings, plane_danger,
                                          << planes[i] >>, plane_id) } :
            FilledInOrder(next, planes, i + 1)

====
